---- MODULE Spec2Model ----
(***************************************************************************)
(* NXmind mind map: the tree edit functions (utils/helpers), the history   *)
(* hook (utils/useHistory) and the interaction hook                        *)
(* (components/useMindMapInteraction), as state machines.                  *)
(*                                                                         *)
(* A MindNode is a record [id, text, children, isRoot]; children is a      *)
(* sequence of MindNodes.  Ids are positive naturals, 0 stands for null.   *)
(* An optional node (MindNode | null) is a sequence of length 0 or 1.      *)
(***************************************************************************)
EXTENDS Naturals, Integers, Sequences, FiniteSets, TLC

\* ------------------------------------------------------------------------
\* Bounds of the model
\* ------------------------------------------------------------------------
\* largest id generateId may hand out
MaxId == 4
\* largest number of nodes a tree is allowed to grow to
MaxNodes == 4
\* largest number of nodes the interaction hook is allowed to have on screen
MaxRendered == 3
\* number of fresh root objects the interaction hook may create
MaxRef == 2
\* largest number of nodes a ctrl/meta click may add up to in selectedIds
MaxSelected == 2

NoId == 0
\* an id that never names a node: beyond every id generateId hands out here
MissingId == MaxId + MaxNodes + 1

Positions == {"inside", "prev", "next"}

\* ------------------------------------------------------------------------
\* Sequence helpers (Array.prototype.findIndex / splice / filter / map)
\* ------------------------------------------------------------------------
\* children.findIndex(c => c.id === id), 1-based; 0 when JS returns -1
FindIndex(children, id) ==
  IF \E i \in 1..Len(children) : children[i].id = id
  THEN CHOOSE i \in 1..Len(children) :
         /\ children[i].id = id
         /\ \A j \in 1..(i-1) : children[j].id # id
  ELSE 0

\* copy.splice(idx, 1) for the 1-based index i
RemoveAt(s, i) == SubSeq(s, 1, i-1) \o SubSeq(s, i+1, Len(s))

\* copy.splice(k, 0, e) where k is the 0-based JS index: e ends up at k+1
InsertAt(s, k, e) == SubSeq(s, 1, k) \o <<e>> \o SubSeq(s, k+1, Len(s))

\* children.filter(c => !ids.has(c.id))
RECURSIVE FilterOut(_, _)
FilterOut(s, ids) ==
  IF s = <<>> THEN <<>>
  ELSE IF Head(s).id \in ids THEN FilterOut(Tail(s), ids)
       ELSE <<Head(s)>> \o FilterOut(Tail(s), ids)

\* [...a, ...b, ...] for a sequence of sequences
RECURSIVE Flatten(_)
Flatten(ss) == IF ss = <<>> THEN <<>> ELSE Head(ss) \o Flatten(Tail(ss))

\* ------------------------------------------------------------------------
\* Tree observers used by the properties
\* ------------------------------------------------------------------------
\* the ids of a tree in pre-order, one entry per occurrence
RECURSIVE IdSeq(_)
IdSeq(node) ==
  <<node.id>> \o Flatten([i \in 1..Len(node.children) |-> IdSeq(node.children[i])])

IdsOf(node) == {IdSeq(node)[i] : i \in 1..Len(IdSeq(node))}

Size(node) == Len(IdSeq(node))

\* the same tree with every id replaced by 0: shape, child order, texts, isRoot
RECURSIVE Shape(_)
Shape(node) ==
  [id |-> 0, text |-> node.text, isRoot |-> node.isRoot,
   children |-> [i \in 1..Len(node.children) |-> Shape(node.children[i])]]

\* ------------------------------------------------------------------------
\* utils/helpers: findNodeById, findParentNode, isDescendant
\* ------------------------------------------------------------------------
RECURSIVE findNodeById(_, _), findNodeByIdIn(_, _, _)
findNodeById(node, id) ==
  IF node.id = id THEN <<node>> ELSE findNodeByIdIn(node.children, 1, id)

\* the for-loop of findNodeById over the children, from index i on
findNodeByIdIn(children, i, id) ==
  IF i > Len(children) THEN <<>>
  ELSE LET found == findNodeById(children[i], id)
       IN IF found # <<>> THEN found ELSE findNodeByIdIn(children, i+1, id)

RECURSIVE findParentNode(_, _), findParentNodeIn(_, _, _)
findParentNode(root, childId) == findParentNodeIn(root, 1, childId)

\* the for-loop of findParentNode over root.children, from index i on
findParentNodeIn(root, i, childId) ==
  IF i > Len(root.children) THEN <<>>
  ELSE IF root.children[i].id = childId THEN <<root>>
       ELSE LET found == findParentNode(root.children[i], childId)
            IN IF found # <<>> THEN found ELSE findParentNodeIn(root, i+1, childId)

isDescendant(root, targetId, potentialAncestorId) ==
  IF targetId = potentialAncestorId THEN TRUE
  ELSE LET ancestor == findNodeById(root, potentialAncestorId)
       IN IF ancestor = <<>> THEN FALSE
          ELSE findNodeById(ancestor[1], targetId) # <<>>

\* ------------------------------------------------------------------------
\* utils/helpers: generateId
\* ------------------------------------------------------------------------
\* Math.random() + Date.now() rendered as a string: a value that was never
\* handed out before.  The k-th call after `next` ids were used returns next+k.
generateId(next, k) == next + k

\* the last non-null entry of a sequence of optional nodes (a captured
\* variable that every hit overwrites)
RECURSIVE LastFound(_)
LastFound(opts) ==
  IF opts = <<>> THEN <<>>
  ELSE IF opts[Len(opts)] # <<>> THEN opts[Len(opts)]
       ELSE LastFound(SubSeq(opts, 1, Len(opts)-1))

\* ------------------------------------------------------------------------
\* utils/helpers: moveNode
\* ------------------------------------------------------------------------
\* moveNode.remove that leaves the dragged child where it is
moveNode_remove_keeps(node, draggedId) == node

\* moveNode.remove: the tree without the dragged child
RECURSIVE moveNode_remove(_, _)
moveNode_remove(node, draggedId) ==
  LET idx == FindIndex(node.children, draggedId)
  IN IF idx # 0
     THEN [node EXCEPT !.children = RemoveAt(node.children, idx)]
     ELSE [node EXCEPT !.children =
             [i \in 1..Len(node.children) |-> moveNode_remove(node.children[i], draggedId)]]

\* moveNode.remove: the value left in the captured variable draggedNode
RECURSIVE moveNode_draggedNode(_, _)
moveNode_draggedNode(node, draggedId) ==
  LET idx == FindIndex(node.children, draggedId)
  IN IF idx # 0
     THEN <<node.children[idx]>>
     ELSE LastFound([i \in 1..Len(node.children) |->
                       moveNode_draggedNode(node.children[i], draggedId)])

\* moveNode.insert
RECURSIVE moveNode_insert(_, _, _, _)
moveNode_insert(node, targetId, position, draggedNode) ==
  IF position = "inside" /\ node.id = targetId
  THEN [node EXCEPT !.children = Append(node.children, draggedNode)]
  ELSE IF position # "inside" /\ FindIndex(node.children, targetId) # 0
  THEN LET idx == FindIndex(node.children, targetId)
           \* 0-based insertIndex: idx0 for 'prev', idx0 + 1 for 'next'
           insertIndex == IF position = "prev" THEN idx - 1 ELSE idx
       IN [node EXCEPT !.children = InsertAt(node.children, insertIndex, draggedNode)]
  ELSE [node EXCEPT !.children =
          [i \in 1..Len(node.children) |->
             moveNode_insert(node.children[i], targetId, position, draggedNode)]]

\* moveNode returns the object it was given (`return root`)
moveNode_returnsRoot(root, draggedId, targetId) ==
  \/ draggedId = root.id
  \/ draggedId = targetId
  \/ moveNode_draggedNode(root, draggedId) = <<>>

moveNode(root, draggedId, targetId, position) ==
  IF moveNode_returnsRoot(root, draggedId, targetId) THEN root
  ELSE moveNode_insert(moveNode_remove(root, draggedId), targetId, position,
                       moveNode_draggedNode(root, draggedId)[1])

\* ------------------------------------------------------------------------
\* utils/helpers: moveNodes
\* ------------------------------------------------------------------------
\* draggedIds.filter(...): validIds, in the order of draggedIds
RECURSIVE moveNodes_validIds(_, _, _)
moveNodes_validIds(root, draggedIds, targetId) ==
  IF draggedIds = <<>> THEN <<>>
  ELSE LET id == Head(draggedIds)
           rest == moveNodes_validIds(root, Tail(draggedIds), targetId)
       IN IF id = root.id THEN rest
          ELSE IF id = targetId THEN rest
          ELSE IF isDescendant(root, targetId, id) THEN rest
          ELSE <<id>> \o rest

SeqToSet(s) == {s[i] : i \in 1..Len(s)}

\* nodesMap: the keys in insertion order (a Map keeps the first insertion of a
\* key), restricted to ids that findNodeById finds
RECURSIVE moveNodes_nodesMapKeys(_, _, _)
moveNodes_nodesMapKeys(root, validIds, seen) ==
  IF validIds = <<>> THEN <<>>
  ELSE LET id == Head(validIds)
       IN IF id \notin seen /\ findNodeById(root, id) # <<>>
          THEN <<id>> \o moveNodes_nodesMapKeys(root, Tail(validIds), seen \cup {id})
          ELSE moveNodes_nodesMapKeys(root, Tail(validIds), seen)

\* the while loop that climbs from curr: is an ancestor in validIds?
RECURSIVE moveNodes_isChildOfSelection(_, _, _)
moveNodes_isChildOfSelection(root, curr, validIds) ==
  IF curr = <<>> THEN FALSE
  ELSE IF curr[1].id \in SeqToSet(validIds) THEN TRUE
  ELSE LET up == findParentNode(root, curr[1].id)
       IN IF up # <<>> /\ up[1].id = root.id THEN FALSE
          ELSE moveNodes_isChildOfSelection(root, up, validIds)

\* topLevelNodes, as ids in nodesMap order
RECURSIVE moveNodes_topLevelIds(_, _, _)
moveNodes_topLevelIds(root, keys, validIds) ==
  IF keys = <<>> THEN <<>>
  ELSE LET id == Head(keys)
           rest == moveNodes_topLevelIds(root, Tail(keys), validIds)
       IN IF moveNodes_isChildOfSelection(root, findParentNode(root, id), validIds)
          THEN rest
          ELSE <<id>> \o rest

\* moveNodes.removeFinal
RECURSIVE moveNodes_removeFinal(_, _)
moveNodes_removeFinal(node, topLevelIds) ==
  LET filteredChildren == FilterOut(node.children, topLevelIds)
  IN [node EXCEPT !.children =
        [i \in 1..Len(filteredChildren) |->
           moveNodes_removeFinal(filteredChildren[i], topLevelIds)]]

\* moveNodes.insertFinal
RECURSIVE moveNodes_insertFinal(_, _, _)
moveNodes_insertFinal(node, targetId, topLevelNodes) ==
  IF node.id = targetId
  THEN [node EXCEPT !.children = node.children \o topLevelNodes]
  ELSE [node EXCEPT !.children =
          [i \in 1..Len(node.children) |->
             moveNodes_insertFinal(node.children[i], targetId, topLevelNodes)]]

\* moveNodes returns the object it was given (`return root`)
moveNodes_returnsRoot(root, draggedIds, targetId) ==
  LET validIds == moveNodes_validIds(root, draggedIds, targetId)
  IN \/ validIds = <<>>
     \/ moveNodes_nodesMapKeys(root, validIds, {}) = <<>>

moveNodes(root, draggedIds, targetId) ==
  IF moveNodes_returnsRoot(root, draggedIds, targetId) THEN root
  ELSE LET validIds == moveNodes_validIds(root, draggedIds, targetId)
           keys == moveNodes_nodesMapKeys(root, validIds, {})
           topIds == moveNodes_topLevelIds(root, keys, validIds)
           topLevelNodes == [i \in 1..Len(topIds) |-> findNodeById(root, topIds[i])[1]]
           rootCleaned == moveNodes_removeFinal(root, SeqToSet(topIds))
       IN moveNodes_insertFinal(rootCleaned, targetId, topLevelNodes)

\* ------------------------------------------------------------------------
\* utils/helpers: copyNode
\* ------------------------------------------------------------------------
\* number of nodes in the first k subtrees of a children sequence
RECURSIVE SizeOfFirst(_, _)
SizeOfFirst(children, k) ==
  IF k = 0 THEN 0 ELSE SizeOfFirst(children, k-1) + Size(children[k])

\* cloneWithNewIds that keeps the ids of the source
copyNode_cloneWithNewIds_sameIds(node, next, used) == node

\* copyNode.cloneWithNewIds: {...node, id: generateId(), children: map(clone)};
\* `used` ids were generated before this node's own call
RECURSIVE copyNode_cloneWithNewIds(_, _, _)
copyNode_cloneWithNewIds(node, next, used) ==
  [node EXCEPT
     !.id = generateId(next, used + 1),
     !.children = [i \in 1..Len(node.children) |->
        copyNode_cloneWithNewIds(node.children[i], next,
                                 used + 1 + SizeOfFirst(node.children, i-1))]]

\* copyNode.insert
RECURSIVE copyNode_insert(_, _, _, _)
copyNode_insert(node, targetId, position, copiedNode) ==
  IF position = "inside" /\ node.id = targetId
  THEN [node EXCEPT !.children = Append(node.children, copiedNode)]
  ELSE IF position # "inside" /\ FindIndex(node.children, targetId) # 0
  THEN LET idx == FindIndex(node.children, targetId)
           insertIndex == IF position = "prev" THEN idx - 1 ELSE idx
       IN [node EXCEPT !.children = InsertAt(node.children, insertIndex, copiedNode)]
  ELSE [node EXCEPT !.children =
          [i \in 1..Len(node.children) |->
             copyNode_insert(node.children[i], targetId, position, copiedNode)]]

\* copyNode returns the object it was given (`return root`)
copyNode_returnsRoot(root, sourceId, targetId) ==
  \/ sourceId = targetId
  \/ findNodeById(root, sourceId) = <<>>

\* `next` is the number of ids generateId has handed out so far
copyNode(root, sourceId, targetId, position, next) ==
  IF copyNode_returnsRoot(root, sourceId, targetId) THEN root
  ELSE LET sourceNode == findNodeById(root, sourceId)[1]
           copiedNode == copyNode_cloneWithNewIds(sourceNode, next, 0)
       IN copyNode_insert(root, targetId, position, copiedNode)

\* the number of generateId calls copyNode makes
copyNode_idsUsed(root, sourceId, targetId) ==
  IF copyNode_returnsRoot(root, sourceId, targetId) THEN 0
  ELSE Size(findNodeById(root, sourceId)[1])

\* ------------------------------------------------------------------------
\* components/useMindMapInteraction: the tree each handler builds.
\* A handler that returns before it calls setInternalDataWithHistory yields
\* <<>>, otherwise <<newData>>.
\* ------------------------------------------------------------------------
\* const newNode: MindNode = { id: newId, text: '', children: [] }
NewNode(newId) == [id |-> newId, text |-> "", children |-> <<>>, isRoot |-> FALSE]

\* the new node put in front of the children of parentId
RECURSIVE addChild_addToNode_first(_, _, _)
addChild_addToNode_first(node, parentId, newNode) ==
  IF node.id = parentId
  THEN [node EXCEPT !.children = <<newNode>> \o node.children]
  ELSE [node EXCEPT !.children =
          [i \in 1..Len(node.children) |->
             addChild_addToNode_first(node.children[i], parentId, newNode)]]

\* addChild.addToNode
RECURSIVE addChild_addToNode(_, _, _)
addChild_addToNode(node, parentId, newNode) ==
  IF node.id = parentId
  THEN [node EXCEPT !.children = Append(node.children, newNode)]
  ELSE [node EXCEPT !.children =
          [i \in 1..Len(node.children) |->
             addChild_addToNode(node.children[i], parentId, newNode)]]

addChild_newData(root, parentId, newId) ==
  <<addChild_addToNode(root, parentId, NewNode(newId))>>

\* the new node put in front of currentId
RECURSIVE addSibling_addSib_before(_, _, _)
addSibling_addSib_before(node, currentId, newNode) ==
  IF FindIndex(node.children, currentId) # 0
  THEN [node EXCEPT !.children =
          InsertAt(node.children, FindIndex(node.children, currentId) - 1, newNode)]
  ELSE [node EXCEPT !.children =
          [i \in 1..Len(node.children) |->
             addSibling_addSib_before(node.children[i], currentId, newNode)]]

\* addSibling.addSib
RECURSIVE addSibling_addSib(_, _, _)
addSibling_addSib(node, currentId, newNode) ==
  IF FindIndex(node.children, currentId) # 0
  THEN [node EXCEPT !.children =
          InsertAt(node.children, FindIndex(node.children, currentId), newNode)]
  ELSE [node EXCEPT !.children =
          [i \in 1..Len(node.children) |->
             addSibling_addSib(node.children[i], currentId, newNode)]]

addSibling_newData(root, currentId, newId) ==
  IF currentId = root.id THEN <<>>
  ELSE <<addSibling_addSib(root, currentId, NewNode(newId))>>

\* promoteNode that puts the node in front of its parent
promoteNode_newData_prev(root, id) ==
  IF id = root.id THEN <<>>
  ELSE LET parent == findParentNode(root, id)
       IN IF parent = <<>> \/ parent[1].id = root.id THEN <<>>
          ELSE <<moveNode(root, id, parent[1].id, "prev")>>

promoteNode_newData(root, id) ==
  IF id = root.id THEN <<>>
  ELSE LET parent == findParentNode(root, id)
       IN IF parent = <<>> \/ parent[1].id = root.id THEN <<>>
          ELSE <<moveNode(root, id, parent[1].id, "next")>>

\* the sibling on the other side as the target
reorderNode_targetId_opposite(parent, id, direction) ==
  LET index == FindIndex(parent.children, id)
  IN IF direction = "down"
     THEN (IF index > 1 THEN parent.children[index - 1].id ELSE NoId)
     ELSE (IF index < Len(parent.children) THEN parent.children[index + 1].id ELSE NoId)

\* reorderNode: the targetId it picks, NoId when it stays null
reorderNode_targetId(parent, id, direction) ==
  LET index == FindIndex(parent.children, id)
  IN IF direction = "up"
     THEN (IF index > 1 THEN parent.children[index - 1].id ELSE NoId)
     ELSE (IF index < Len(parent.children) THEN parent.children[index + 1].id ELSE NoId)

reorderNode_newData(root, id, direction) ==
  IF id = root.id THEN <<>>
  ELSE LET parent == findParentNode(root, id)
       IN IF parent = <<>> THEN <<>>
          ELSE IF FindIndex(parent[1].children, id) = 0 THEN <<>>
          ELSE LET targetId == reorderNode_targetId(parent[1], id, direction)
                   pos == IF direction = "up" THEN "prev" ELSE "next"
               IN IF targetId = NoId THEN <<>>
                  ELSE <<moveNode(root, id, targetId, pos)>>

\* deleteNode.remove
RECURSIVE deleteNode_remove(_, _)
deleteNode_remove(node, id) ==
  IF FindIndex(node.children, id) # 0
  THEN [node EXCEPT !.children = FilterOut(node.children, {id})]
  ELSE [node EXCEPT !.children =
          [i \in 1..Len(node.children) |-> deleteNode_remove(node.children[i], id)]]

\* deleteNode.remove: the value left in the captured variable parentId
RECURSIVE deleteNode_parentId(_, _)
deleteNode_parentId(node, id) ==
  IF FindIndex(node.children, id) # 0 THEN <<node>>
  ELSE LastFound([i \in 1..Len(node.children) |->
                    deleteNode_parentId(node.children[i], id)])

deleteNode_newData(root, id) ==
  IF id = root.id THEN <<>> ELSE <<deleteNode_remove(root, id)>>

\* idsToDelete.splice(idx) in place of splice(idx, 1): drops the root id and
\* every id after it
batchDelete_idsToDelete_spliceAll(root, ids) ==
  IF FindIndex([i \in 1..Len(ids) |-> [id |-> ids[i]]], root.id) = 0 THEN ids
  ELSE SubSeq(ids, 1, FindIndex([i \in 1..Len(ids) |-> [id |-> ids[i]]], root.id) - 1)

\* batchDelete: Array.from(selectedIds) without the root id
RECURSIVE batchDelete_idsToDelete(_, _)
batchDelete_idsToDelete(root, ids) ==
  IF ids = <<>> THEN <<>>
  ELSE IF Head(ids) = root.id THEN Tail(ids)
       ELSE <<Head(ids)>> \o batchDelete_idsToDelete(root, Tail(ids))

\* batchDelete.removeRecursive
RECURSIVE batchDelete_removeRecursive(_, _)
batchDelete_removeRecursive(node, idsToDelete) ==
  LET kept == FilterOut(node.children, idsToDelete)
  IN [node EXCEPT !.children =
        [i \in 1..Len(kept) |-> batchDelete_removeRecursive(kept[i], idsToDelete)]]

batchDelete_newData(root, ids) ==
  LET idsToDelete == batchDelete_idsToDelete(root, ids)
  IN IF idsToDelete = <<>> THEN <<>>
     ELSE <<batchDelete_removeRecursive(root, SeqToSet(idsToDelete))>>

\* handleTextChange.updateText
RECURSIVE handleTextChange_updateText(_, _, _)
handleTextChange_updateText(node, id, newText) ==
  IF node.id = id THEN [node EXCEPT !.text = newText]
  ELSE [node EXCEPT !.children =
          [i \in 1..Len(node.children) |->
             handleTextChange_updateText(node.children[i], id, newText)]]

\* ------------------------------------------------------------------------
\* State
\* ------------------------------------------------------------------------
VARIABLES
  \* the tree edit functions applied one after the other
  tree,               \* the current root
  call,               \* the last application: function, arguments, input, output
  idCount,            \* number of ids generateId has handed out
  \* utils/useHistory
  past, present, future,
  \* components/useMindMapInteraction
  lastCommittedData, isTransientRef, saveTimeoutRef,
  editingId, selectedIds, draggedNodeId, dropTarget,
  focusedNodeId,      \* viewState.focusedNodeId, held by the parent component
  refCount,           \* number of root objects created so far
  lastOp,             \* the handler that ran last and what it committed
  \* the canvas: box selection and the viewport
  isSelecting, selectionRect,
  transform,          \* d3.zoomTransform(svgRef.current)
  viewState,          \* viewState.x, .y, .k, held by the parent component
  lastEvent           \* the canvas event handled last

opsVars == <<tree, call>>
hookVars == <<past, present, future, lastCommittedData, isTransientRef,
              saveTimeoutRef, editingId, selectedIds, draggedNodeId, dropTarget,
              focusedNodeId, refCount, lastOp>>
canvasVars == <<isSelecting, selectionRect, transform, viewState, lastEvent>>
vars == <<tree, call, idCount, past, present, future, lastCommittedData,
          isTransientRef, saveTimeoutRef, editingId, selectedIds, draggedNodeId,
          dropTarget, focusedNodeId, refCount, lastOp, isSelecting,
          selectionRect, transform, viewState, lastEvent>>

\* the document the model starts from: r(1) -> [ a(2) -> [ b(3) ] ]
InitTree ==
  [id |-> 1, text |-> "r", isRoot |-> TRUE,
   children |-> << [id |-> 2, text |-> "a", isRoot |-> FALSE,
                    children |-> << [id |-> 3, text |-> "b", isRoot |-> FALSE,
                                     children |-> <<>>] >>] >>]
\* the ids handed out so far are those of the document
InitIdCount == Size(InitTree)
RootId == InitTree.id

\* ------------------------------------------------------------------------
\* utils/useHistory: the history triple.  A root object is [ref, node]: `ref`
\* is the identity of the JS object, so that === is equality of refs.  A
\* wrapper is [data, action]; its id and timestamp are only ever logged.
\* ------------------------------------------------------------------------
Obj(ref, node) == [ref |-> ref, node |-> node]
Wrapper(data, action) == [data |-> data, action |-> action]

Hist == [past |-> past, present |-> present, future |-> future]

\* undo that moves the present to the future even when there is no past
undo_emptyPastShifts(h) ==
  IF Len(h.past) = 0 THEN [h EXCEPT !.future = <<h.present>> \o h.future]
  ELSE [past |-> SubSeq(h.past, 1, Len(h.past) - 1),
        present |-> h.past[Len(h.past)],
        future |-> <<h.present>> \o h.future]

undo(h) ==
  IF Len(h.past) = 0 THEN h
  ELSE [past |-> SubSeq(h.past, 1, Len(h.past) - 1),
        present |-> h.past[Len(h.past)],
        future |-> <<h.present>> \o h.future]

\* redo that does not put the present back on the past
redo_dropsPresent(h) ==
  IF Len(h.future) = 0 THEN h
  ELSE [past |-> h.past, present |-> h.future[1], future |-> Tail(h.future)]

redo(h) ==
  IF Len(h.future) = 0 THEN h
  ELSE [past |-> Append(h.past, h.present),
        present |-> h.future[1],
        future |-> Tail(h.future)]

\* set that keeps the future
set_keepsFuture(h, newPresent, action) ==
  IF h.present.data.ref = newPresent.ref THEN h
  ELSE [past |-> Append(h.past, h.present),
        present |-> Wrapper(newPresent, action),
        future |-> h.future]

set(h, newPresent, action) ==
  IF h.present.data.ref = newPresent.ref THEN h
  ELSE [past |-> Append(h.past, h.present),
        present |-> Wrapper(newPresent, action),
        future |-> <<>>]

\* action: `Snapshot for ${action}`
SnapshotAction(action) ==
  IF action = "Update Node Text" THEN "Snapshot for Update Node Text"
  ELSE "Snapshot for Update Node Text (Blur)"

pushStateManual(h, newPresent, pastSnapshotData, action) ==
  [past |-> Append(h.past, Wrapper(pastSnapshotData, SnapshotAction(action))),
   present |-> Wrapper(newPresent, action),
   future |-> <<>>]

\* setSilent that records the replaced present
setSilent_pushes(h, newPresent) ==
  [past |-> Append(h.past, h.present),
   present |-> [h.present EXCEPT !.data = newPresent],
   future |-> <<>>]

setSilent(h, newPresent) ==
  [h EXCEPT !.present = [h.present EXCEPT !.data = newPresent]]

\* ------------------------------------------------------------------------
\* Initial state: the hook right after mount (the focus effect has run)
\* ------------------------------------------------------------------------
NoOp == [committed |-> FALSE, phase |-> "none", snap |-> <<>>,
         base |-> -1, fires |-> 0]
NoCall == [fn |-> "init", root |-> InitTree, a |-> NoId, b |-> NoId,
           pos |-> "inside", ids |-> <<>>, next |-> InitIdCount]

InitHook ==
  /\ past = <<>>
  /\ present = Wrapper(Obj(0, InitTree), "Initial")
  /\ future = <<>>
  /\ lastCommittedData = Obj(0, InitTree)
  /\ isTransientRef = FALSE
  /\ saveTimeoutRef = <<>>
  /\ focusedNodeId = RootId
  /\ editingId = RootId
  /\ selectedIds = <<RootId>>
  /\ draggedNodeId = NoId
  /\ dropTarget = <<>>
  /\ refCount = 0
  /\ lastOp = NoOp

\* d3.zoomIdentity
zoomIdentity == [x |-> 0, y |-> 0, k |-> 1]

NoEvent == [type |-> "init", id |-> NoId, y |-> 0, before |-> zoomIdentity]

\* the canvas of a note that was saved with the identity view
InitCanvas ==
  /\ isSelecting = FALSE
  /\ selectionRect = <<>>
  /\ transform = zoomIdentity
  /\ viewState = zoomIdentity
  /\ lastEvent = NoEvent

Init ==
  /\ tree = InitTree
  /\ call = NoCall
  /\ idCount = InitIdCount
  /\ InitHook
  /\ InitCanvas

\* ------------------------------------------------------------------------
\* The tree edit functions applied one after the other, to any ids
\* ------------------------------------------------------------------------
\* largest number of ids in a draggedIds / selectedIds argument
MaxBatch == 3

ArgIds == IdsOf(tree) \cup {MissingId}

\* sequences of distinct ids, at most n long
RECURSIVE DistinctSeqs(_, _)
DistinctSeqs(S, n) ==
  IF n = 0 THEN {<<>>}
  ELSE LET shorter == DistinctSeqs(S, n - 1)
           longer == UNION {{Append(q, x) : x \in S \ SeqToSet(q)} : q \in shorter}
       IN shorter \cup longer

ArgSeqs == DistinctSeqs(ArgIds, MaxBatch) \ {<<>>}

\* no application has been observed yet
Running == call.fn = "init"

\* the result of a handler's tree edit: the tree stays when it returned early
Result(opt) == IF opt = <<>> THEN tree ELSE opt[1]

\* One application.  The run either goes on from the output, within the bounds,
\* or observes the application: `call` then keeps the function, its arguments
\* and its input next to the output in `tree`, and the run ends there.
Apply(fn, a, b, pos, ids, out, used) ==
  /\ tree' = out
  /\ idCount' = idCount + used
  /\ \/ /\ Size(out) <= MaxNodes
        /\ idCount + used <= MaxId
        /\ call' = call
     \/ call' = [fn |-> fn, root |-> tree, a |-> a, b |-> b, pos |-> pos,
                 ids |-> ids, next |-> idCount]
  /\ UNCHANGED hookVars
  /\ UNCHANGED canvasVars

OpMoveNode ==
  /\ Running
  /\ \E d \in ArgIds, t \in ArgIds, pos \in Positions :
      Apply("moveNode", d, t, pos, <<>>, moveNode(tree, d, t, pos), 0)

OpMoveNodes ==
  /\ Running
  /\ \E ids \in ArgSeqs, t \in ArgIds :
      Apply("moveNodes", NoId, t, "inside", ids, moveNodes(tree, ids, t), 0)

OpCopyNode ==
  /\ Running
  /\ \E src \in ArgIds, t \in ArgIds, pos \in Positions :
      Apply("copyNode", src, t, pos, <<>>, copyNode(tree, src, t, pos, idCount),
          copyNode_idsUsed(tree, src, t))

OpAddChild ==
  /\ Running
  /\ \E p \in ArgIds :
      Apply("addChild", p, NoId, "inside", <<>>,
          Result(addChild_newData(tree, p, generateId(idCount, 1))), 1)

OpAddSibling ==
  /\ Running
  /\ \E c \in ArgIds :
      Apply("addSibling", c, NoId, "inside", <<>>,
          Result(addSibling_newData(tree, c, generateId(idCount, 1))),
          IF c = tree.id THEN 0 ELSE 1)

OpPromote ==
  /\ Running
  /\ \E id \in ArgIds :
      Apply("promoteNode", id, NoId, "next", <<>>, Result(promoteNode_newData(tree, id)), 0)

OpReorder ==
  /\ Running
  /\ \E id \in ArgIds, dir \in {"up", "down"} :
      Apply("reorderNode", id, NoId, dir, <<>>, Result(reorderNode_newData(tree, id, dir)), 0)

OpDelete ==
  /\ Running
  /\ \E id \in ArgIds :
      Apply("deleteNode", id, NoId, "inside", <<>>, Result(deleteNode_newData(tree, id)), 0)

OpBatchDelete ==
  /\ Running
  /\ \E ids \in ArgSeqs :
      Apply("batchDelete", NoId, NoId, "inside", ids, Result(batchDelete_newData(tree, ids)), 0)

NextOps ==
  \/ OpMoveNode
  \/ OpMoveNodes
  \/ OpCopyNode
  \/ OpAddChild
  \/ OpAddSibling
  \/ OpPromote
  \/ OpReorder
  \/ OpDelete
  \/ OpBatchDelete

SpecOps == Init /\ [][NextOps]_vars

\* ------------------------------------------------------------------------
\* components/useMindMapInteraction: the hook
\* ------------------------------------------------------------------------
MAX_TEXT_LENGTH == 5000

\* the texts a keystroke may leave in the textarea
TooLongText == "too long"
NewTexts == {"x", "y", TooLongText}
\* newText.length measured wrongly: every text passes the limit
TextLen_short(t) == 1
\* newText.length
TextLen(t) == IF t = TooLongText THEN MAX_TEXT_LENGTH + 1 ELSE 1

\* pointer positions of a drop, as offsetY inside a box of height BoxHeight
BoxHeight == 100
PointerOffsets == {15, 50, 90}

\* a classification by halves that treats the root like any other node
getDropPosition_halves(offsetY, height, isRoot) ==
  IF 2 * offsetY < height THEN "prev" ELSE "next"

\* getDropPosition, with offsetY = e.clientY - rect.top and height = rect.height
getDropPosition(offsetY, height, isRoot) ==
  IF isRoot THEN "inside"
  ELSE IF 4 * offsetY < height THEN "prev"
  ELSE IF 4 * offsetY > 3 * height THEN "next"
  ELSE "inside"

\* internalData: state.present.data
internalData == present.data

\* the nodes on screen
Rendered == IdsOf(internalData.node)

\* The textarea that has the keyboard: the ref callback focuses the editing
\* node's textarea on every render in which it is the only selected node;
\* otherwise the focus is wherever the user left it.
Focusable ==
  IF editingId \in Rendered /\ Len(selectedIds) = 1 THEN {editingId} ELSE Rendered

\* the nodes whose box is draggable: draggable={!isRoot}
Draggable == {id \in Rendered : ~findNodeById(internalData.node, id)[1].isRoot}

\* While a native drag is in progress the browser delivers drag events only
\* (and runs timers): no mouse, keyboard or input events.
NotDragging == draggedNodeId = NoId

\* a root object created by this handler
NewObj(node) == Obj(refCount + 1, node)

\* what the run remembers about the handler that just ran (kind: "text" an
\* accepted text change, "rejected" a rejected one, "timer" the save timer,
\* "blur", "undo", "redo", "edit" a handler that got as far as
\* setInternalDataWithHistory, "other" anything else):
\*   committed      it added a history entry through set or pushStateManual
\*   phase, snap    "committed", then "undone" by the undo right after it, then
\*                  "redone" by the redo right after that, with the triple the
\*                  commit left; "undoEmpty" / "redoEmpty" after an undo with
\*                  an empty past / a redo with an empty future, with the
\*                  triple it found; "rejected" after a rejected text change
\*   base, fires    a run of text changes and timer expiries: Len(past) at its
\*                  start and the number of expiries in it (base -1: no run)
Remember(kind, h2) ==
  LET committed == kind \notin {"undo", "redo"} /\ Len(h2.past) = Len(past) + 1
      follows == \/ kind = "undo" /\ lastOp.phase = "committed"
                 \/ kind = "redo" /\ lastOp.phase = "undone"
      empty == \/ kind = "undo" /\ past = <<>>
               \/ kind = "redo" /\ future = <<>>
  IN [committed |-> committed,
      phase |-> IF committed THEN "committed"
                ELSE IF follows THEN (IF kind = "undo" THEN "undone" ELSE "redone")
                ELSE IF empty THEN (IF kind = "undo" THEN "undoEmpty" ELSE "redoEmpty")
                ELSE IF kind = "rejected" THEN "rejected"
                ELSE "none",
      snap |-> IF committed THEN <<h2>>
               ELSE IF follows THEN lastOp.snap
               ELSE IF empty THEN <<Hist>>
               ELSE <<>>,
      base |-> IF kind = "text"
               THEN (IF lastOp.base = -1 THEN Len(past) ELSE lastOp.base)
               ELSE IF kind \in {"timer", "rejected"} THEN lastOp.base
               ELSE -1,
      fires |-> IF kind = "text"
                THEN (IF lastOp.base = -1 THEN 0 ELSE lastOp.fires)
                ELSE IF kind = "timer"
                THEN (IF lastOp.base = -1 THEN 0 ELSE lastOp.fires + 1)
                ELSE IF kind = "rejected" THEN lastOp.fires
                ELSE 0]

\* The state a handler leaves behind, after the render it causes and the
\* effects of that render:
\*   [internalData]             if (!isTransientRef.current) lastCommittedData.current = internalData
\*   [viewState.focusedNodeId]  setEditingId(focused); if (focused) setSelectedIds({focused})
Finish(kind, h2, committedData, transient, timer, editing, selected, focused, dragged, target, ids, refs) ==
  /\ past' = h2.past
  /\ present' = h2.present
  /\ future' = h2.future
  /\ isTransientRef' = transient
  /\ saveTimeoutRef' = timer
  /\ lastCommittedData' =
       IF h2.present.data.ref # present.data.ref /\ ~transient
       THEN h2.present.data ELSE committedData
  /\ focusedNodeId' = focused
  /\ editingId' = IF focused # focusedNodeId THEN focused ELSE editing
  /\ selectedIds' = IF focused # focusedNodeId /\ focused # NoId
                    THEN <<focused>> ELSE selected
  /\ draggedNodeId' = dragged
  /\ dropTarget' = target
  /\ idCount' = ids
  /\ refCount' = refs
  /\ lastOp' = Remember(kind, h2)
  /\ UNCHANGED opsVars
  /\ UNCHANGED canvasVars

\* handleTextChange(id, newText), typed into an enabled textarea
HandleTextChange ==
  /\ NotDragging
  /\ Len(selectedIds) <= 1
  /\ \E id \in Focusable, newText \in NewTexts :
       IF TextLen(newText) > MAX_TEXT_LENGTH
       THEN Finish("rejected", Hist, lastCommittedData,
                   isTransientRef, saveTimeoutRef, editingId, selectedIds,
                   focusedNodeId, draggedNodeId, dropTarget, idCount, refCount)
       ELSE /\ refCount < MaxRef
            /\ LET newData == NewObj(handleTextChange_updateText(internalData.node, id, newText))
               IN Finish("text", setSilent(Hist, newData), lastCommittedData,
                         TRUE, <<[newData |-> newData]>>, editingId, selectedIds,
                         focusedNodeId, draggedNodeId, dropTarget, idCount, refCount + 1)

\* the callback of the 800 ms timer armed by handleTextChange
SaveTimeout ==
  /\ saveTimeoutRef # <<>>
  /\ LET newData == saveTimeoutRef[1].newData
     IN IF lastCommittedData.ref # newData.ref
        THEN Finish("timer",
                    pushStateManual(Hist, newData, lastCommittedData, "Update Node Text"),
                    newData, FALSE, <<>>, editingId, selectedIds, focusedNodeId,
                    draggedNodeId, dropTarget, idCount, refCount)
        ELSE Finish("timer", Hist, lastCommittedData, isTransientRef, <<>>,
                    editingId, selectedIds, focusedNodeId, draggedNodeId, dropTarget,
                    idCount, refCount)

HandleTextBlur ==
  /\ NotDragging
  /\ IF internalData.ref # lastCommittedData.ref
     THEN Finish("blur",
                 pushStateManual(Hist, internalData, lastCommittedData,
                                 "Update Node Text (Blur)"),
                 internalData, FALSE, <<>>, editingId, selectedIds, focusedNodeId,
                 draggedNodeId, dropTarget, idCount, refCount)
     ELSE Finish("blur", Hist, lastCommittedData, FALSE, <<>>, editingId,
                 selectedIds, focusedNodeId, draggedNodeId, dropTarget, idCount,
                 refCount)

\* the object a tree edit function returned: the one it was given, or a new one
ResultObj(node, same) == IF same THEN internalData ELSE NewObj(node)
ResultRefs(same) == IF same THEN refCount ELSE refCount + 1

\* a handler that returned before it touched anything
Returned ==
  Finish("other", Hist, lastCommittedData, isTransientRef, saveTimeoutRef, editingId,
         selectedIds, focusedNodeId, draggedNodeId, dropTarget, idCount, refCount)

\* addChild(parentId): cancelPendingTextSave, then the edit (Tab in a textarea)
AddChild ==
  /\ NotDragging
  /\ Len(selectedIds) <= 1
  /\ refCount < MaxRef
  /\ idCount < MaxId
  /\ Size(internalData.node) < MaxRendered
  /\ \E parentId \in Focusable :
       LET newId == generateId(idCount, 1)
           newData == NewObj(addChild_newData(internalData.node, parentId, newId)[1])
       IN Finish("edit", set(Hist, newData, "Add Child Node"), lastCommittedData,
                 FALSE, <<>>, newId, <<newId>>, newId, draggedNodeId, dropTarget,
                 idCount + 1, refCount + 1)

\* addSibling(currentId) (Enter in a textarea)
AddSibling ==
  /\ NotDragging
  /\ Len(selectedIds) <= 1
  /\ refCount < MaxRef
  /\ idCount < MaxId
  /\ Size(internalData.node) < MaxRendered
  /\ \E currentId \in Focusable :
       LET newId == generateId(idCount, 1)
           opt == addSibling_newData(internalData.node, currentId, newId)
       IN IF opt = <<>> THEN Returned
          ELSE Finish("edit", set(Hist, NewObj(opt[1]), "Add Sibling Node"),
                      lastCommittedData, FALSE, <<>>, newId, <<newId>>, newId,
                      draggedNodeId, dropTarget, idCount + 1, refCount + 1)

\* promoteNode(id) (Shift + Tab in a textarea)
PromoteNode ==
  /\ NotDragging
  /\ Len(selectedIds) <= 1
  /\ refCount < MaxRef
  /\ \E id \in Focusable :
       LET root == internalData.node
           opt == promoteNode_newData(root, id)
       IN IF opt = <<>> THEN Returned
          ELSE LET same == moveNode_returnsRoot(root, id, findParentNode(root, id)[1].id)
               IN Finish("edit", set(Hist, ResultObj(opt[1], same), "Promote Node"),
                         lastCommittedData, FALSE, <<>>, editingId, selectedIds,
                         focusedNodeId, draggedNodeId, dropTarget, idCount,
                         ResultRefs(same))

\* reorderNode(id, direction) (Alt + ArrowUp / ArrowDown in a textarea)
ReorderNode ==
  /\ NotDragging
  /\ Len(selectedIds) <= 1
  /\ refCount < MaxRef
  /\ \E id \in Focusable, direction \in {"up", "down"} :
       LET root == internalData.node
           opt == reorderNode_newData(root, id, direction)
       IN IF opt = <<>> THEN Returned
          ELSE LET targetId == reorderNode_targetId(findParentNode(root, id)[1], id, direction)
                   same == moveNode_returnsRoot(root, id, targetId)
               IN Finish("edit", set(Hist, ResultObj(opt[1], same), "Reorder Node"),
                         lastCommittedData, FALSE, <<>>, editingId, selectedIds,
                         focusedNodeId, draggedNodeId, dropTarget, idCount,
                         ResultRefs(same))

\* the parent as the node to focus, whatever the place of the node
handleInputKeyDown_nextFocusId_parent(root, nodeId) ==
  IF findParentNode(root, nodeId) = <<>> THEN NoId ELSE findParentNode(root, nodeId)[1].id

\* handleInputKeyDown, Delete: the nextFocusId it passes to deleteNode
handleInputKeyDown_nextFocusId(root, nodeId) ==
  LET parent == findParentNode(root, nodeId)
  IN IF parent = <<>> THEN NoId
     ELSE LET idx == FindIndex(parent[1].children, nodeId)
          IN IF idx > 1 THEN parent[1].children[idx - 1].id ELSE parent[1].id

\* deleteNode(id, nextFocusId) (Delete, or Backspace twice on an empty text)
DeleteNode ==
  /\ NotDragging
  /\ Len(selectedIds) <= 1
  /\ refCount < MaxRef
  /\ \E id \in Focusable :
       LET root == internalData.node
           nextFocusId == handleInputKeyDown_nextFocusId(root, id)
           opt == deleteNode_newData(root, id)
           parent == deleteNode_parentId(root, id)
           parentId == IF parent = <<>> THEN NoId ELSE parent[1].id
           targetId == IF nextFocusId # NoId THEN nextFocusId ELSE parentId
       IN IF opt = <<>> THEN Returned
          ELSE Finish("edit", set(Hist, NewObj(opt[1]), "Delete Node"),
                      lastCommittedData, FALSE, <<>>,
                      IF targetId # NoId THEN targetId ELSE editingId,
                      IF targetId # NoId THEN <<targetId>> ELSE selectedIds,
                      IF targetId # NoId THEN targetId ELSE focusedNodeId,
                      draggedNodeId, dropTarget, idCount, refCount + 1)

\* batchDelete() (Delete or Backspace outside a textarea, something selected)
BatchDelete ==
  /\ NotDragging
  /\ Len(selectedIds) > 0
  /\ refCount < MaxRef
  /\ LET root == internalData.node
         idsToDelete == batchDelete_idsToDelete(root, selectedIds)
         opt == batchDelete_newData(root, selectedIds)
     IN IF opt = <<>>
        THEN Finish("other", Hist, lastCommittedData, FALSE, <<>>, editingId,
                    selectedIds, focusedNodeId, draggedNodeId, dropTarget, idCount,
                    refCount)
        ELSE LET parent == findParentNode(root, idsToDelete[1])
                 fallbackId == IF parent = <<>> THEN NoId ELSE parent[1].id
                 kept == fallbackId # NoId /\ findNodeById(opt[1], fallbackId) # <<>>
             IN Finish("edit", set(Hist, NewObj(opt[1]), "Batch Delete Nodes"),
                       lastCommittedData, FALSE, <<>>,
                       IF kept THEN fallbackId ELSE NoId, <<>>,
                       IF kept THEN fallbackId ELSE focusedNodeId,
                       draggedNodeId, dropTarget, idCount, refCount + 1)

\* the undo wrapper: drop the pending save, then originalUndo()
Undo ==
  /\ NotDragging
  /\ Finish("undo", undo(Hist), lastCommittedData,
            IF saveTimeoutRef # <<>> THEN FALSE ELSE isTransientRef, <<>>,
            editingId, selectedIds, focusedNodeId, draggedNodeId, dropTarget, idCount,
            refCount)

\* the redo wrapper: drop the pending save, then originalRedo()
Redo ==
  /\ NotDragging
  /\ Finish("redo", redo(Hist), lastCommittedData,
            IF saveTimeoutRef # <<>> THEN FALSE ELSE isTransientRef, <<>>,
            editingId, selectedIds, focusedNodeId, draggedNodeId, dropTarget, idCount,
            refCount)

\* setSelectedIds(prev => ...) of a ctrl/meta click: a Set keeps insertion order
ToggleSelected(selected, nodeId) ==
  IF nodeId \in SeqToSet(selected)
  THEN SelectSeq(selected, LAMBDA x : x # nodeId)
  ELSE Append(selected, nodeId)

\* handleNodeClick(e, nodeId)
HandleNodeClick ==
  /\ NotDragging
  /\ \E nodeId \in Rendered, ctrlKey \in BOOLEAN :
    IF ctrlKey
    THEN /\ nodeId \notin SeqToSet(selectedIds) => Len(selectedIds) < MaxSelected
         /\ Finish("other", Hist, lastCommittedData, isTransientRef,
                saveTimeoutRef, NoId, ToggleSelected(selectedIds, nodeId),
                focusedNodeId, draggedNodeId, dropTarget, idCount, refCount)
    ELSE Finish("other", Hist, lastCommittedData, isTransientRef,
                saveTimeoutRef, nodeId, <<nodeId>>, nodeId, draggedNodeId,
                dropTarget, idCount, refCount)

\* handleDragStart(e, nodeId)
HandleDragStart ==
  /\ NotDragging
  /\ \E nodeId \in Draggable :
    IF nodeId \notin SeqToSet(selectedIds)
    THEN Finish("other", Hist, lastCommittedData, isTransientRef,
                saveTimeoutRef, NoId, <<nodeId>>, focusedNodeId, nodeId, dropTarget,
                idCount, refCount)
    ELSE Finish("other", Hist, lastCommittedData, isTransientRef,
                saveTimeoutRef, editingId, selectedIds, focusedNodeId, nodeId,
                dropTarget, idCount, refCount)

\* handleDragEnd(e)
HandleDragEnd ==
  /\ draggedNodeId # NoId
  /\ Finish("other", Hist, lastCommittedData, isTransientRef, saveTimeoutRef,
            editingId, selectedIds, focusedNodeId, NoId, <<>>, idCount, refCount)

\* handleDrop, multi-node copy: the ids.forEach loop.  The result carries the
\* tree, the number of ids generated and whether currentData is still the
\* object the loop started from.
RECURSIVE handleDrop_copyAll(_, _, _, _, _, _)
handleDrop_copyAll(currentData, ids, targetId, pos, used, same) ==
  IF ids = <<>> THEN [node |-> currentData, used |-> used, same |-> same]
  ELSE LET id == Head(ids)
       IN IF ~isDescendant(currentData, targetId, id)
          THEN handleDrop_copyAll(
                 copyNode(currentData, id, targetId,
                          IF pos = "inside" THEN "inside" ELSE "next", idCount + used),
                 Tail(ids), targetId, pos,
                 used + copyNode_idsUsed(currentData, id, targetId),
                 same /\ copyNode_returnsRoot(currentData, id, targetId))
          ELSE handleDrop_copyAll(currentData, Tail(ids), targetId, pos, used, same)

\* handleDrop: the tree it hands to setInternalDataWithHistory, <<>> when it
\* does not call it; with the ids generated and the identity of the result
handleDrop_newData(root, targetId, pos, isCopy) ==
  IF Len(selectedIds) > 1
  THEN IF isCopy
       THEN <<handleDrop_copyAll(root, selectedIds, targetId, pos, 0, TRUE)>>
       ELSE <<[node |-> moveNodes(root, selectedIds, targetId), used |-> 0,
               same |-> moveNodes_returnsRoot(root, selectedIds, targetId)]>>
  ELSE IF draggedNodeId # NoId /\ draggedNodeId # targetId
          /\ ~isDescendant(root, targetId, draggedNodeId)
       THEN IF isCopy
            THEN <<[node |-> copyNode(root, draggedNodeId, targetId, pos, idCount),
                    used |-> copyNode_idsUsed(root, draggedNodeId, targetId),
                    same |-> copyNode_returnsRoot(root, draggedNodeId, targetId)]>>
            ELSE <<[node |-> moveNode(root, draggedNodeId, targetId, pos), used |-> 0,
                    same |-> moveNode_returnsRoot(root, draggedNodeId, targetId)]>>
       ELSE <<>>

\* the action label handleDrop passes along
handleDrop_action(isCopy) ==
  IF Len(selectedIds) > 1
  THEN (IF isCopy THEN "Paste/Copy Nodes" ELSE "Move Nodes")
  ELSE (IF isCopy THEN "Copy Node" ELSE "Move Node")

\* handleDrop(e, targetId, isRoot), at the end of a drag that handleDragStart began
HandleDrop ==
  /\ draggedNodeId # NoId
  /\ refCount < MaxRef
  /\ \E targetId \in Rendered, offsetY \in PointerOffsets, isCopy \in BOOLEAN :
       LET root == internalData.node
           isRoot == findNodeById(root, targetId)[1].isRoot
           isMultiDrag == Len(selectedIds) > 1
           pos == IF isMultiDrag THEN "inside"
                  ELSE getDropPosition(offsetY, BoxHeight, isRoot)
           opt == handleDrop_newData(root, targetId, pos, isCopy)
       IN IF opt = <<>>
          THEN Finish("other", Hist, lastCommittedData, isTransientRef,
                      saveTimeoutRef, editingId, selectedIds, focusedNodeId, NoId, <<>>,
                      idCount, refCount)
          ELSE /\ idCount + opt[1].used <= MaxId
               /\ Size(opt[1].node) <= MaxRendered
               /\ Finish("edit",
                         set(Hist, ResultObj(opt[1].node, opt[1].same),
                             handleDrop_action(isCopy)),
                         lastCommittedData, isTransientRef, saveTimeoutRef, editingId,
                         selectedIds, focusedNodeId, NoId, <<>>,
                         idCount + opt[1].used, ResultRefs(opt[1].same))

Next ==
  \/ HandleTextChange
  \/ SaveTimeout
  \/ HandleTextBlur
  \/ AddChild
  \/ AddSibling
  \/ PromoteNode
  \/ ReorderNode
  \/ DeleteNode
  \/ BatchDelete
  \/ Undo
  \/ Redo
  \/ HandleNodeClick
  \/ HandleDragStart
  \/ HandleDragEnd
  \/ HandleDrop

Spec == Init /\ [][Next]_vars

\* ------------------------------------------------------------------------
\* components/useMindMapLayout and the canvas handlers of the hook: the
\* layout, the viewport transform, box selection and the drop indicator.
\* Lengths are in pixels.  The tree on the canvas is the initial one, in the
\* 'tree' layout; the scales are 1 and 2, which keeps every product and
\* quotient below an integer, as it is exact in the program's doubles.
\* ------------------------------------------------------------------------
MIN_NODE_WIDTH == 80
INDENT_TREE == 40
padding == 60

Max(a, b) == IF a > b THEN a ELSE b
Min(a, b) == IF a < b THEN a ELSE b
Abs(a) == IF a < 0 THEN 0 - a ELSE a

\* wrapperRef.current.clientWidth and clientHeight
Viewport == [w |-> 400, h |-> 320]

MAX_NODE_WIDTH == 1280
MAX_NODE_HEIGHT == 600
HORIZONTAL_GAP_MINDMAP == 60

\* texts of more than one line or of wide lines
WideText == "a wide line"
HugeText == "a line wider than the widest node"
TwoLineText == "two lines"
TallText == "twenty-five lines"
LayoutTexts == {"", WideText, HugeText, TwoLineText, TallText}

\* text.split('\n') with ctx.measureText(line).width for every line, of
\* d.data.text || (d.data.isRoot ? "..." : " "): the other texts of the model
\* are one short line
measureText(text) ==
  IF text = WideText THEN <<200>>
  ELSE IF text = HugeText THEN <<1300>>
  ELSE IF text = TwoLineText THEN <<30, 100>>
  ELSE IF text = TallText THEN [i \in 1..25 |-> 10]
  ELSE <<10>>

\* calculateLayout, step 1: lines.forEach with maxWidth starting at
\* MIN_NODE_WIDTH
RECURSIVE calculateLayout_maxWidth(_, _)
calculateLayout_maxWidth(lines, maxWidth) ==
  IF lines = <<>> THEN maxWidth
  ELSE calculateLayout_maxWidth(Tail(lines),
                                IF Head(lines) > maxWidth THEN Head(lines) ELSE maxWidth)

\* a width measured from the text alone, without the floor under maxWidth
calculateLayout_width_unfloored(text) ==
  Min(Max(MIN_NODE_WIDTH, calculateLayout_maxWidth(measureText(text), 0) + 50), MAX_NODE_WIDTH)

\* calculateLayout, step 1: d.width
calculateLayout_width(text) ==
  Min(Max(MIN_NODE_WIDTH,
          calculateLayout_maxWidth(measureText(text), MIN_NODE_WIDTH) + 50),
      MAX_NODE_WIDTH)

\* calculateLayout, step 1: d.actualHeight
calculateLayout_actualHeight(text) ==
  Min(Max(40, 40 + (Len(measureText(text)) - 1) * 24), MAX_NODE_HEIGHT)

\* rows of ROW_HEIGHT_TREE pixels, whatever the height of the nodes
calculateLayout_eachBefore_rows(nodes, depth, currentY) ==
  LET ids == Flatten([i \in 1..Len(nodes) |-> IdSeq(nodes[i])])
  IN [i \in 1..Len(ids) |->
        [id |-> ids[i], isRoot |-> i = 1, x |-> currentY + 60 * i - 30,
         y |-> depth * INDENT_TREE, width |-> MIN_NODE_WIDTH, actualHeight |-> 40]]

\* calculateLayout, the 'tree' branch: root.eachBefore visits the nodes in
\* pre-order with the cursor currentY
RECURSIVE calculateLayout_eachBefore(_, _, _)
calculateLayout_eachBefore(nodes, depth, currentY) ==
  IF nodes = <<>> THEN <<>>
  ELSE LET node == Head(nodes)
           nodeHeight == calculateLayout_actualHeight(node.text)
           d == [id |-> node.id, isRoot |-> node.isRoot,
                 x |-> currentY + nodeHeight \div 2,
                 y |-> depth * INDENT_TREE,
                 width |-> calculateLayout_width(node.text),
                 actualHeight |-> nodeHeight]
           below == calculateLayout_eachBefore(node.children, depth + 1,
                                               currentY + nodeHeight + 10)
           last == below[Len(below)]
           nextY == IF below = <<>> THEN currentY + nodeHeight + 10
                    ELSE last.x - last.actualHeight \div 2 + last.actualHeight + 10
       IN <<d>> \o below \o calculateLayout_eachBefore(Tail(nodes), depth, nextY)

\* layoutCache.current: the LayoutNodes of the tree on screen
layoutCache == calculateLayout_eachBefore(<<internalData.node>>, 0, 0)

\* root.descendants().find(d => d.data.id === id), <<>> when there is none
LayoutFind(id) == SelectSeq(layoutCache, LAMBDA d : d.id = id)

\* d3: transform.applyX, transform.applyY, transform.translate
applyX(t, x) == x * t.k + t.x
applyY(t, y) == y * t.k + t.y
translate(t, x, y) == [t EXCEPT !.x = t.x + t.k * x, !.y = t.y + t.k * y]

\* the box of a node as MindMap renders it: the foreignObject
foreignObject(d) ==
  LET height == IF d.actualHeight # 0 THEN d.actualHeight ELSE 40
  IN [x |-> d.y - 10, y |-> d.x - height \div 2, w |-> d.width + 20, h |-> height]

\* centerView with a box height of 80 for every node
centerView_nodeH_80(targetNode) == 80

\* centerView: nodeH = targetNode.actualHeight || 80
centerView_nodeH(targetNode) ==
  IF targetNode.actualHeight # 0 THEN targetNode.actualHeight ELSE 80

\* centerView(targetId, clearFocus, preserveScale) without a screen anchor:
\* the transform it sets and emits as the new ViewState; the current one when
\* it returns early
centerView(t, targetId, preserveScale) ==
  LET idToFind == IF targetId # NoId THEN targetId ELSE internalData.node.id
      found == LayoutFind(idToFind)
  IN IF found = <<>> THEN t
     ELSE LET targetNode == found[1]
              targetScale == IF preserveScale THEN t.k ELSE 1
              nodeScreenX == targetNode.y - 10
              nodeScreenY ==
                targetNode.x
                  - (IF targetNode.actualHeight # 0 THEN targetNode.actualHeight ELSE 40) \div 2
              nodeW == targetNode.width + 20
              nodeH == centerView_nodeH(targetNode)
              nodeCenterX == nodeScreenX + nodeW \div 2
              nodeCenterY == nodeScreenY + nodeH \div 2
          IN [x |-> Viewport.w \div 2 - nodeCenterX * targetScale,
              y |-> Viewport.h \div 2 - nodeCenterY * targetScale,
              k |-> targetScale]

\* centerView(targetId, clearFocus, preserveScale, targetScreenX, targetScreenY)
\* with an explicit screen anchor: targetX and targetY are overridden from the
\* anchor and nodeScreenX / nodeScreenY
centerView_anchored(t, targetId, preserveScale, targetScreenX, targetScreenY) ==
  LET idToFind == IF targetId # NoId THEN targetId ELSE internalData.node.id
      found == LayoutFind(idToFind)
  IN IF found = <<>> THEN t
     ELSE LET targetNode == found[1]
              targetScale == IF preserveScale THEN t.k ELSE 1
              nodeScreenX == targetNode.y - 10
              nodeScreenY ==
                targetNode.x
                  - (IF targetNode.actualHeight # 0 THEN targetNode.actualHeight ELSE 40) \div 2
          IN [x |-> targetScreenX - nodeScreenX * targetScale,
              y |-> targetScreenY - nodeScreenY * targetScale,
              k |-> targetScale]

\* autoPan that never moves the view
autoPan_delta_none(pos, size, viewportSize) == 0

\* autoPan, one axis: dx from nodeX, nodeW, viewportW; dy from nodeY, nodeH,
\* viewportH
autoPan_delta(pos, size, viewportSize) ==
  IF pos < padding THEN padding - pos
  ELSE IF pos + size > viewportSize - padding
  THEN viewportSize - padding - (pos + size)
  ELSE 0

\* autoPan(editingId): the transform it leaves
autoPan(t, id) ==
  LET found == IF id = NoId THEN <<>> ELSE LayoutFind(id)
  IN IF found = <<>> THEN t
     ELSE LET node == found[1]
              nodeHeight == IF node.actualHeight # 0 THEN node.actualHeight ELSE 80
              nodeX == applyX(t, node.y - 10)
              nodeY == applyY(t, node.x - nodeHeight \div 2)
              nodeW == (node.width + 20) * t.k
              nodeH == nodeHeight * t.k
              dx == autoPan_delta(nodeX, nodeW, Viewport.w)
              dy == autoPan_delta(nodeY, nodeH, Viewport.h)
          IN IF dx # 0 \/ dy # 0 THEN translate(t, dx \div t.k, dy \div t.k) ELSE t

\* the zoom behaviour's filter
zoom_filter(type, button) ==
  \/ type = "wheel"
  \/ button = 2 \/ button = 1
  \/ type = "touchstart"

\* the transforms a wheel, pan or touch gesture of the user ends in
ZoomTargets ==
  {zoomIdentity, [x |-> 250, y |-> 200, k |-> 1], [x |-> -100, y |-> -40, k |-> 2]}

\* the input events that reach the zoom behaviour besides mouse presses
ZoomEvents == {"wheel", "touchstart"}

\* where the pointer may be on the canvas: getLocalPoint(e)
Points == {[x |-> 0, y |-> 0], [x |-> 100, y |-> 75], [x |-> 160, y |-> 85]}

\* handleMouseMove: the rectangle between the start point and the pointer
handleMouseMove_rect(sel, currentX, currentY) ==
  [x |-> Min(sel.startX, currentX), y |-> Min(sel.startY, currentY),
   w |-> Abs(currentX - sel.startX), h |-> Abs(currentY - sel.startY)]

\* handleMouseMove: the overlap test of one LayoutNode
handleMouseMove_overlaps(r, t, d) ==
  LET nodeX == d.y - 10
      nodeY == d.x - 40
      nodeW == d.width + 20
      nodeH == IF d.actualHeight # 0 THEN d.actualHeight ELSE 80
      screenX == applyX(t, nodeX)
      screenY == applyY(t, nodeY)
      screenW == nodeW * t.k
      screenH == nodeH * t.k
  IN /\ r.x < screenX + screenW
     /\ r.x + r.w > screenX
     /\ r.y < screenY + screenH
     /\ r.y + r.h > screenY

\* handleMouseMove: newSelected, in the order of layoutCache
handleMouseMove_newSelected(r, t) ==
  LET hit == SelectSeq(layoutCache, LAMBDA d : handleMouseMove_overlaps(r, t, d))
  IN [i \in 1..Len(hit) |-> hit[i].id]

\* e.currentTarget.getBoundingClientRect() of a node's box: top and height
BoundingClientRect(t, d) ==
  [top |-> applyY(t, foreignObject(d).y), height |-> foreignObject(d).h * t.k]

\* The state a canvas handler leaves behind, after the render it causes and
\* the effects of that render:
\*   [viewState.focusedNodeId]  setEditingId(focused); if (focused) setSelectedIds({focused})
\*   [isSelecting]              the zoom effect: svg.call(zoom.transform, viewState)
\*   [editingId]                autoPan(editingId)
\* lastEvent keeps the event, the node and pointer it was about and the
\* transform that centerView or autoPan started from.
FinishCanvas(type, id, y, before, editing, selected, focused, dragged, target, selecting, rect, tr, vs) ==
  LET focusChanged == focused # focusedNodeId
      editing2 == IF focusChanged THEN focused ELSE editing
      zoomEffect == IF selecting # isSelecting THEN vs ELSE tr
  IN /\ editingId' = editing2
     /\ selectedIds' = IF focusChanged /\ focused # NoId THEN <<focused>> ELSE selected
     /\ focusedNodeId' = focused
     /\ draggedNodeId' = dragged
     /\ dropTarget' = target
     /\ isSelecting' = selecting
     /\ selectionRect' = rect
     /\ transform' = IF editing2 # editingId THEN autoPan(zoomEffect, editing2)
                     ELSE zoomEffect
     /\ viewState' = vs
     /\ lastEvent' = [type |-> type, id |-> id, y |-> y, before |-> before]
     /\ UNCHANGED <<tree, call, idCount, past, present, future, lastCommittedData,
                    isTransientRef, saveTimeoutRef, refCount, lastOp>>

\* handleMouseDown of a primary-button press on the canvas; the press also
\* reaches the zoom behaviour, which starts a gesture if its filter lets it
CanvasMouseDown ==
  /\ NotDragging
  /\ \E p \in Points, modifier \in BOOLEAN :
     \E target \in IF zoom_filter("mousedown", 0) THEN ZoomTargets ELSE {transform} :
       FinishCanvas("primaryDown", NoId, 0, transform,
                    IF modifier THEN editingId ELSE NoId,
                    IF modifier THEN selectedIds ELSE <<>>,
                    focusedNodeId, draggedNodeId, dropTarget, TRUE,
                    <<[startX |-> p.x, startY |-> p.y,
                       currentX |-> p.x, currentY |-> p.y]>>,
                    target,
                    IF target # transform /\ ~isSelecting THEN target ELSE viewState)

\* zoomed(event) of a pan with the secondary or middle button, which
\* handleMouseDown ignores
CanvasPan ==
  /\ NotDragging
  /\ \E button \in {1, 2}, target \in ZoomTargets :
       /\ zoom_filter("mousedown", button)
       /\ FinishCanvas("pan", NoId, 0, transform, editingId, selectedIds,
                       focusedNodeId, draggedNodeId, dropTarget, isSelecting,
                       selectionRect, target,
                       IF ~isSelecting THEN target ELSE viewState)

\* handleMouseMove
CanvasMouseMove ==
  /\ NotDragging
  /\ isSelecting /\ selectionRect # <<>>
  /\ \E p \in Points :
       LET r == handleMouseMove_rect(selectionRect[1], p.x, p.y)
       IN FinishCanvas("mouseMove", NoId, 0, transform, editingId,
                       handleMouseMove_newSelected(r, transform), focusedNodeId,
                       draggedNodeId, dropTarget, isSelecting,
                       <<[selectionRect[1] EXCEPT !.currentX = p.x, !.currentY = p.y]>>,
                       transform, viewState)

\* handleMouseUp, of a press that began on the canvas
CanvasMouseUp ==
  /\ NotDragging
  /\ isSelecting
  /\ FinishCanvas("mouseUp", NoId, 0, transform, editingId, selectedIds,
                  focusedNodeId, draggedNodeId, dropTarget, FALSE, <<>>, transform,
                  viewState)

\* zoomed(event) of a wheel or touch gesture
CanvasZoom ==
  /\ NotDragging
  /\ \E type \in ZoomEvents, target \in ZoomTargets :
       /\ zoom_filter(type, 0)
       /\ FinishCanvas("zoom", NoId, 0, transform, editingId, selectedIds,
                       focusedNodeId, draggedNodeId, dropTarget, isSelecting,
                       selectionRect, target,
                       IF ~isSelecting THEN target ELSE viewState)

\* a plain click on a node: the release reaches handleMouseUp on the canvas,
\* then handleNodeClick runs ("clickEditing": on the node that is being
\* edited, so that editingId stays and autoPan does not run)
CanvasNodeClick ==
  /\ NotDragging
  /\ \E nodeId \in Rendered :
       LET released == IF isSelecting THEN viewState ELSE transform
       IN FinishCanvas(IF nodeId # editingId THEN "click" ELSE "clickEditing",
                       nodeId, 0, released, nodeId, <<nodeId>>, nodeId,
                       draggedNodeId, dropTarget, FALSE, <<>>, transform, viewState)

\* handleInputKeyDown, Alt+Enter in the textarea of the node being edited:
\* centerView(nodeId, false, true)
CanvasAltEnter ==
  /\ NotDragging
  /\ editingId \in Rendered /\ Len(selectedIds) = 1
  /\ LET c == centerView(transform, editingId, TRUE)
     IN FinishCanvas("altEnter", editingId, 0, transform, editingId, selectedIds,
                     editingId, draggedNodeId, dropTarget, isSelecting,
                     selectionRect, c, c)

\* The initial centering effect of MindMap in tree mode: the parent has set
\* viewState.needsCentering (a new note, the switch to the tree layout), the
\* 50 ms timer fires and calls
\* centerView(viewState.focusedNodeId, false, false, 120, 120).  clearFocus is
\* false: a focus that is set is kept, and with no focus the root is the
\* target and the emitted focusedNodeId stays null.
CanvasInitialCentering ==
  /\ NotDragging
  /\ focusedNodeId = NoId \/ focusedNodeId \in Rendered
  /\ LET c == centerView_anchored(transform, focusedNodeId, FALSE, 120, 120)
         target == IF focusedNodeId # NoId THEN focusedNodeId ELSE internalData.node.id
     IN FinishCanvas("initialCentering", target, 0, transform, editingId, selectedIds,
                     focusedNodeId, draggedNodeId, dropTarget, isSelecting,
                     selectionRect, c, c)

\* The Escape key.  During a native drag the browser takes it: it cancels the
\* drag and fires dragend (handleDragEnd).  Otherwise handleGlobalKey runs.
CanvasEscape ==
  IF draggedNodeId # NoId
  THEN FinishCanvas("escapeDrag", NoId, 0, transform, editingId, selectedIds,
                    focusedNodeId, NoId, <<>>, isSelecting, selectionRect,
                    transform, viewState)
  ELSE IF isSelecting
  THEN FinishCanvas("escapeSelecting", NoId, 0, transform, editingId, selectedIds,
                    focusedNodeId, draggedNodeId, dropTarget, FALSE, <<>>,
                    transform, viewState)
  ELSE LET c == centerView(transform, NoId, FALSE)
       IN FinishCanvas("escapeCenter", internalData.node.id, 0, transform, NoId,
                       <<>>, NoId, draggedNodeId, dropTarget, isSelecting,
                       selectionRect, c, c)

\* handleDragStart(e, nodeId)
CanvasDragStart ==
  /\ NotDragging
  /\ \E nodeId \in Draggable :
       IF nodeId \notin SeqToSet(selectedIds)
       THEN FinishCanvas("dragStart", nodeId, 0, transform, NoId, <<nodeId>>,
                         focusedNodeId, nodeId, dropTarget, isSelecting,
                         selectionRect, transform, viewState)
       ELSE FinishCanvas("dragStart", nodeId, 0, transform, editingId, selectedIds,
                         focusedNodeId, nodeId, dropTarget, isSelecting,
                         selectionRect, transform, viewState)

\* the pointer heights tried over a box: its edges, quarter lines and middle
DragOverOffsets(height) ==
  {0, height \div 8, height \div 4, height \div 2, (3 * height) \div 4,
   (7 * height) \div 8, height}

\* handleDragOver(e, targetId, isRoot) with the pointer at clientY
CanvasDragOver ==
  /\ draggedNodeId # NoId
  /\ \E i \in 1..Len(layoutCache) :
       LET d == layoutCache[i]
           rect == BoundingClientRect(transform, d)
       IN \E offset \in DragOverOffsets(rect.height) :
            LET clientY == rect.top + offset
                isMultiDrag == Len(selectedIds) > 1
                pos == IF isMultiDrag THEN "inside"
                       ELSE getDropPosition(clientY - rect.top, rect.height, d.isRoot)
                skip == \/ draggedNodeId = d.id
                        \/ isDescendant(internalData.node, d.id, draggedNodeId)
            IN FinishCanvas("dragOver", d.id, clientY, transform, editingId,
                            selectedIds, focusedNodeId, draggedNodeId,
                            IF skip THEN dropTarget
                            ELSE <<[nodeId |-> d.id, position |-> pos]>>,
                            isSelecting, selectionRect, transform, viewState)

\* handleDragEnd(e)
CanvasDragEnd ==
  /\ draggedNodeId # NoId
  /\ FinishCanvas("dragEnd", NoId, 0, transform, editingId, selectedIds,
                  focusedNodeId, NoId, <<>>, isSelecting, selectionRect, transform,
                  viewState)

\* box selection and drag
NextCanvas ==
  \/ CanvasMouseDown
  \/ CanvasMouseMove
  \/ CanvasMouseUp
  \/ CanvasNodeClick
  \/ CanvasEscape
  \/ CanvasDragStart
  \/ CanvasDragOver
  \/ CanvasDragEnd

SpecCanvas == Init /\ [][NextCanvas]_vars

\* the viewport
NextView ==
  \/ CanvasMouseDown
  \/ CanvasMouseUp
  \/ CanvasPan
  \/ CanvasZoom
  \/ CanvasNodeClick
  \/ CanvasAltEnter
  \/ CanvasEscape
  \/ CanvasInitialCentering

SpecView == Init /\ [][NextView]_vars

\* ------------------------------------------------------------------------
\* useMindMapLayout: calculateLayout of the tree, in both layout types
\* ------------------------------------------------------------------------
\* root.descendants() with the depth d3.hierarchy gives each node and the
\* measured size of step 1
RECURSIVE descendants(_, _, _)
descendants(nodes, depth, parentId) ==
  IF nodes = <<>> THEN <<>>
  ELSE LET node == Head(nodes)
       IN <<[id |-> node.id, depth |-> depth, parent |-> parentId,
             width |-> calculateLayout_width(node.text),
             actualHeight |-> calculateLayout_actualHeight(node.text)]>>
          \o descendants(node.children, depth + 1, node.id)
          \o descendants(Tail(nodes), depth, parentId)

\* maxWidhtsPerDepth[depth] after the forEach, 0 standing for undefined
RECURSIVE calculateLayout_maxWidths(_, _, _)
calculateLayout_maxWidths(ds, depth, currentMax) ==
  IF ds = <<>> THEN currentMax
  ELSE calculateLayout_maxWidths(Tail(ds), depth,
         IF Head(ds).depth = depth /\ Head(ds).width > currentMax
         THEN Head(ds).width ELSE currentMax)

\* every level as wide as the narrowest node
calculateLayout_depthOffsets_min(ds, depth) == depth * (MIN_NODE_WIDTH + HORIZONTAL_GAP_MINDMAP)

\* depthOffsets[depth] after the for loop
RECURSIVE calculateLayout_depthOffsets(_, _)
calculateLayout_depthOffsets(ds, depth) ==
  IF depth = 0 THEN 0
  ELSE LET maxWidth == calculateLayout_maxWidths(ds, depth - 1, 0)
       IN calculateLayout_depthOffsets(ds, depth - 1)
          + (IF maxWidth = 0 THEN MIN_NODE_WIDTH ELSE maxWidth)
          + HORIZONTAL_GAP_MINDMAP

\* calculateLayout, the 'mindmap' branch: d.y of every node (d.x is set by
\* d3.tree)
calculateLayout_mindmap(root) ==
  LET ds == descendants(<<root>>, 0, NoId)
  IN [i \in 1..Len(ds) |->
        [id |-> ds[i].id, depth |-> ds[i].depth, parent |-> ds[i].parent,
         width |-> ds[i].width, actualHeight |-> ds[i].actualHeight,
         y |-> calculateLayout_depthOffsets(ds, ds[i].depth)]]

\* calculateLayout, the 'tree' branch
calculateLayout_tree(root) == calculateLayout_eachBefore(<<root>>, 0, 0)

layoutVars == <<call, hookVars, canvasVars>>

\* a node is added under any node of the tree
LayoutAddChild ==
  /\ Size(tree) < MaxNodes
  /\ idCount < MaxId
  /\ \E parentId \in IdsOf(tree) :
        tree' = addChild_newData(tree, parentId, generateId(idCount, 1))[1]
  /\ idCount' = idCount + 1
  /\ UNCHANGED layoutVars

\* the text of any node is replaced
LayoutTextChange ==
  /\ \E id \in IdsOf(tree), newText \in LayoutTexts :
        tree' = handleTextChange_updateText(tree, id, newText)
  /\ UNCHANGED <<idCount, layoutVars>>

NextLayout ==
  \/ LayoutAddChild
  \/ LayoutTextChange

SpecLayout == Init /\ [][NextLayout]_vars

\* ------------------------------------------------------------------------
\* The global keydown handler: Ctrl/Cmd + C copies the selection as an outline
\* ------------------------------------------------------------------------
\* the while loop over the ancestors of a selected node, from curr on
RECURSIVE copy_isChildOfSelection(_, _, _)
copy_isChildOfSelection(root, curr, selected) ==
  IF curr = <<>> THEN FALSE
  ELSE IF curr[1].id \in SeqToSet(selected) THEN TRUE
  ELSE LET next == findParentNode(root, curr[1].id)
       IN IF next # <<>> /\ next[1].id = root.id THEN FALSE
          ELSE copy_isChildOfSelection(root, next, selected)

\* topLevelNodes: the selected nodes found in the tree, in the order of
\* selectedIds, without those the loop finds below a selected node
copy_topLevelNodes(root, selected) ==
  LET ids == SelectSeq(selected, LAMBDA id : findNodeById(root, id) # <<>>)
      top == SelectSeq(ids, LAMBDA id :
               ~copy_isChildOfSelection(root, findParentNode(root, id), selected))
  IN [i \in 1..Len(top) |-> findNodeById(root, top[i])[1]]

\* serializeNode(node, depth): the lines of the outline, a line being
\* '  '.repeat(depth) + '- ' + node.text (id: the node the line was made from)
RECURSIVE copy_serializeNode(_, _, _)
copy_serializeNode(node, depth, selected) ==
  LET children == SelectSeq(node.children, LAMBDA child : child.id \in SeqToSet(selected))
  IN <<[indent |-> depth, prefix |-> "- ", text |-> node.text, id |-> node.id]>>
     \o Flatten([i \in 1..Len(children) |->
                   copy_serializeNode(children[i], depth + 1, selected)])

\* md: topLevelNodes.map(n => serializeNode(n)).join('\n'), as its lines
copy_md(root, selected) ==
  LET top == copy_topLevelNodes(root, selected)
  IN Flatten([i \in 1..Len(top) |-> copy_serializeNode(top[i], 0, selected)])

\* Ctrl/Cmd + C with a selection: navigator.clipboard.writeText(md)
GlobalCopy ==
  /\ NotDragging
  /\ Len(selectedIds) >= 1
  /\ call' = [fn |-> "copy", root |-> internalData.node, a |-> NoId, b |-> NoId,
              pos |-> "inside", ids |-> selectedIds, next |-> idCount,
              md |-> copy_md(internalData.node, selectedIds)]
  /\ UNCHANGED <<tree, idCount, hookVars, canvasVars>>

NextCopy ==
  \/ HandleNodeClick
  \/ AddChild
  \/ DeleteNode
  \/ GlobalCopy

SpecCopy == Init /\ [][NextCopy]_vars

\* ------------------------------------------------------------------------
\* The structural edits of one node: the tree transforms of addChild and
\* addSibling applied to any id, next to the handlers as the keyboard calls
\* them
\* ------------------------------------------------------------------------
NextEdit ==
  \/ OpAddChild
  \/ OpAddSibling
  \/ HandleNodeClick
  \/ HandleTextChange
  \/ AddChild
  \/ AddSibling
  \/ DeleteNode

\* a smaller document to start from, r(1) -> [ a(2) ], so that nodes can be
\* created within the bounds
InitTreeEdit == [InitTree EXCEPT !.children[1].children = <<>>]

InitEdit ==
  /\ tree = InitTreeEdit
  /\ call = [NoCall EXCEPT !.root = InitTreeEdit, !.next = Size(InitTreeEdit)]
  /\ idCount = Size(InitTreeEdit)
  /\ past = <<>>
  /\ present = Wrapper(Obj(0, InitTreeEdit), "Initial")
  /\ future = <<>>
  /\ lastCommittedData = Obj(0, InitTreeEdit)
  /\ isTransientRef = FALSE
  /\ saveTimeoutRef = <<>>
  /\ focusedNodeId = RootId
  /\ editingId = RootId
  /\ selectedIds = <<RootId>>
  /\ draggedNodeId = NoId
  /\ dropTarget = <<>>
  /\ refCount = 0
  /\ lastOp = NoOp
  /\ InitCanvas

SpecEdit == InitEdit /\ [][NextEdit]_vars

\* ------------------------------------------------------------------------
\* handleDrop with several nodes selected and Ctrl/Cmd held: the copy loop,
\* applied to any selection of two or more ids and any node as target
\* ------------------------------------------------------------------------
OpDropCopy ==
  /\ Running
  /\ \E ids \in ArgSeqs, targetId \in IdsOf(tree) :
       /\ Len(ids) > 1
       /\ LET copied == handleDrop_copyAll(tree, ids, targetId, "inside", 0, TRUE)
          IN Apply("handleDrop", NoId, targetId, "inside", ids, copied.node, copied.used)

NextDrop ==
  \/ OpAddChild
  \/ OpDelete
  \/ OpDropCopy

SpecDrop == Init /\ [][NextDrop]_vars

\* ------------------------------------------------------------------------
\* Promote and reorder: the tree transforms applied to any id, next to the
\* handlers as the keyboard calls them
\* ------------------------------------------------------------------------
NextMove ==
  \/ OpAddChild
  \/ OpPromote
  \/ OpReorder
  \/ HandleNodeClick
  \/ PromoteNode
  \/ ReorderNode

SpecMove == Init /\ [][NextMove]_vars

\* ------------------------------------------------------------------------
\* Properties of the tree edit functions (SpecOps)
\* ------------------------------------------------------------------------
\* no entry of the sequence occurs twice
NoDup(s) == \A i \in 1..Len(s) : \A j \in 1..Len(s) : s[i] = s[j] => i = j

\* the ids of the subtree rooted at id, {} when there is no such node
SubtreeIds(root, id) ==
  IF findNodeById(root, id) = <<>> THEN {} ELSE IdsOf(findNodeById(root, id)[1])

\* b lies strictly below a
ProperDescendant(root, b, a) == a # b /\ b \in SubtreeIds(root, a)

\* the tree without the subtrees whose top node has an id in ids
RECURSIVE Without(_, _)
Without(node, ids) ==
  LET kept == FilterOut(node.children, ids)
  IN [node EXCEPT !.children = [i \in 1..Len(kept) |-> Without(kept[i], ids)]]

\* C1: after every sequence of tree edits, with any ids as arguments, the
\* result is one rooted tree: its top node has the original root id, every id
\* occurs exactly once (so no node lies below itself).
C1_TreeInvariant ==
  /\ tree.id = RootId
  /\ NoDup(IdSeq(tree))

\* a copy was applied to a tree that earlier edits had already changed
C1_Witness ==
  /\ call.fn = "copyNode"
  /\ call.root # InitTree
  /\ Size(tree) > Size(call.root)

\* C5: moveNode(root, A, B, position) with B a proper descendant of A returns
\* a tree structurally identical to root, for every position.
C5_CycleRejected ==
  (call.fn = "moveNode" /\ ProperDescendant(call.root, call.b, call.a))
    => tree = call.root

\* C6: moveNode with a non-root draggedId, and moveNodes, return a tree
\* structurally identical to root when targetId names no node of the tree.
C6_MissingTargetNoOp ==
  (/\ call.fn \in {"moveNode", "moveNodes"}
   /\ call.b \notin IdsOf(call.root)
   /\ call.fn = "moveNode" => call.a # RootId)
    => tree = call.root

\* C7: the root is fixed.  delete, add-sibling, promote, reorder and moveNode
\* addressed to the root id leave the tree unchanged; batch-delete with the
\* root id among the ids removes exactly the subtrees of the other ids;
\* moveNodes with the root id among the ids moves what it would move without
\* it; and the root id is always the id of the top node and of no other node.
C7_RootFixed ==
  /\ tree.id = RootId
  /\ \A i \in 2..Len(IdSeq(tree)) : IdSeq(tree)[i] # RootId
  /\ (/\ call.fn \in {"deleteNode", "addSibling", "promoteNode", "reorderNode",
                      "moveNode"}
      /\ call.a = RootId)
       => tree = call.root
  /\ (call.fn = "batchDelete" /\ RootId \in SeqToSet(call.ids))
       => tree = Without(call.root, SeqToSet(call.ids) \ {RootId})
  /\ (call.fn = "moveNodes" /\ RootId \in SeqToSet(call.ids))
       => /\ tree.text = call.root.text
          /\ tree.isRoot = call.root.isRoot
          /\ IdsOf(tree) \subseteq IdsOf(call.root)

\* batch-delete of the root and two sibling nodes removed the two nodes only
C7_Witness ==
  /\ call.fn = "batchDelete"
  /\ Len(call.ids) = 3
  /\ RootId \in SeqToSet(call.ids)
  /\ Len(call.root.children) = 2
  /\ tree = [call.root EXCEPT !.children = <<>>]

\* the clone that copyNode inserted: the subtree whose ids are the new ones
C8_CloneInserted ==
  LET newIds == IdsOf(tree) \ IdsOf(call.root)
      source == findNodeById(call.root, call.a)[1]
  IN /\ NoDup(IdSeq(tree))
     /\ Cardinality(newIds) = Size(source)
     /\ \E c \in newIds :
          /\ SubtreeIds(tree, c) = newIds
          /\ Shape(findNodeById(tree, c)[1]) = Shape(source)
          /\ Without(tree, {c}) = call.root

\* C8 as stated: copyNode with sourceId # targetId, both present, inserts a
\* clone of the source subtree (same shape, child order and texts) whose ids
\* are all new and distinct, and leaves every pre-existing node as it was;
\* with sourceId = targetId it returns root unchanged.
C8_AsStated ==
  call.fn = "copyNode" =>
    /\ (/\ call.a # call.b
        /\ call.a \in IdsOf(call.root)
        /\ call.b \in IdsOf(call.root))
         => C8_CloneInserted
    /\ call.a = call.b => tree = call.root

\* C8, amended: the same, for position 'inside' or a target that is not the
\* root; 'prev' or 'next' of the root inserts nothing and returns a tree
\* identical to root.
C8_CopyFreshIds ==
  call.fn = "copyNode" =>
    /\ (/\ call.a # call.b
        /\ call.a \in IdsOf(call.root)
        /\ call.b \in IdsOf(call.root)
        /\ (call.pos = "inside" \/ call.b # RootId))
         => C8_CloneInserted
    /\ (/\ call.b = RootId
        /\ call.pos # "inside")
         => tree = call.root
    /\ call.a = call.b => tree = call.root

\* a subtree of two nodes was copied next to another node
C8_Witness ==
  /\ call.fn = "copyNode"
  /\ call.a # call.b
  /\ call.pos = "prev"
  /\ call.a \in IdsOf(call.root)
  /\ Size(findNodeById(call.root, call.a)[1]) = 2
  /\ Size(tree) = Size(call.root) + 2

\* ------------------------------------------------------------------------
\* Properties of the interaction hook and its history (Spec)
\* ------------------------------------------------------------------------
\* a step of a handler that edits the tree or walks the history
StructuralStep ==
  \/ AddChild
  \/ AddSibling
  \/ PromoteNode
  \/ ReorderNode
  \/ DeleteNode
  \/ BatchDelete
  \/ HandleDrop
  \/ Undo
  \/ Redo

\* C2: whenever add-child, add-sibling, promote, reorder, delete, batch-delete,
\* a drop that moves or copies, undo or redo changes the history while a
\* debounced text save is pending, the save timer is cancelled by that step.
C2_PendingSaveCancelled ==
  [][(/\ saveTimeoutRef # <<>>
      /\ StructuralStep
      /\ <<past, present, future>>' # <<past, present, future>>)
       => saveTimeoutRef' = <<>>]_vars

\* C3: in a run of text changes and timer expiries, `past` has grown by one
\* entry per expiry: N text changes and one expiry add exactly 1 entry, two
\* bursts separated by an expiry add exactly 2, and a text change adds none.
C3_DebounceCoalesces ==
  lastOp.base # -1 => Len(past) = lastOp.base + lastOp.fires

\* two bursts, each ended by its timer
C3_Witness ==
  /\ lastOp.base # -1
  /\ lastOp.fires = 2
  /\ Len(past) = lastOp.base + 2

\* C4: undo and then redo right after a commit (set or pushStateManual)
\* give back the present, the past and the future the commit left.
C4_UndoRedoRoundTrip ==
  lastOp.phase = "redone" => lastOp.snap[1] = Hist

\* a text commit of the timer was undone and redone
C4_Witness ==
  /\ lastOp.phase = "redone"
  /\ present.action = "Update Node Text"
  /\ present.data.node # InitTree

\* C9: a commit that adds a history entry leaves `future` empty, so that a
\* redo right after it changes nothing.
C9_CommitClearsFuture ==
  lastOp.committed => (future = <<>> /\ redo(Hist) = Hist)

\* a second commit made after the first one was undone
C9_Witness ==
  /\ lastOp.committed
  /\ present.data.ref = 2
  /\ present.action \notin {"Update Node Text", "Update Node Text (Blur)"}
  /\ past = <<Wrapper(Obj(0, InitTree), "Initial")>>
  /\ ~isTransientRef

\* C10: undo with an empty past and redo with an empty future leave past,
\* present and future, and with them the live tree, as they were.
C10_EmptyUndoRedoNoOp ==
  lastOp.phase \in {"undoEmpty", "redoEmpty"} => lastOp.snap[1] = Hist

\* an undo with nothing left to undo, after an edit, while there is a future
C10_Witness ==
  /\ lastOp.phase = "undoEmpty"
  /\ future # <<>>

\* the isRoot flags of a tree in pre-order
RECURSIVE IsRootSeq(_)
IsRootSeq(node) ==
  <<node.isRoot>> \o Flatten([i \in 1..Len(node.children) |-> IsRootSeq(node.children[i])])

\* C11: after any sequence of edits exactly one node has isRoot = true, and
\* it is the top node of the tree.
C11_OneIsRoot ==
  /\ tree.isRoot
  /\ \A i \in 2..Len(IsRootSeq(tree)) : ~IsRootSeq(tree)[i]

\* the id of the parent of id, NoId for the top node and for ids of no node
ParentId(root, id) ==
  IF findParentNode(root, id) = <<>> THEN NoId ELSE findParentNode(root, id)[1].id

\* the ids that C12 lets moveNodes move: not the root, not the target, without
\* an ancestor among the other draggedIds (the root and the target, which are
\* dropped anyway, do not count as selected ancestors), and with a subtree
\* that does not hold the target
C12_Moved(root, draggedIds, targetId) ==
  {id \in SeqToSet(draggedIds) \cap IdsOf(root) :
     /\ id # root.id
     /\ id # targetId
     /\ \A anc \in SeqToSet(draggedIds) \ {root.id, targetId} :
          ~ProperDescendant(root, id, anc)
     /\ targetId \notin SubtreeIds(root, id)}

\* C12: moveNodes to an existing target moves exactly the ids that are left
\* after dropping the root id, the target, every id with an ancestor among
\* draggedIds and every id whose subtree holds the target: each of them becomes
\* a child of the target with its subtree intact, and every other node keeps
\* its parent.
C12_MoveNodesFilter ==
  (call.fn = "moveNodes" /\ call.b \in IdsOf(call.root)) =>
    LET moved == C12_Moved(call.root, call.ids, call.b)
    IN /\ IdsOf(tree) = IdsOf(call.root)
       /\ \A id \in moved :
            /\ ParentId(tree, id) = call.b
            /\ findNodeById(tree, id) = findNodeById(call.root, id)
       /\ \A id \in IdsOf(call.root) \ moved :
            ParentId(tree, id) = ParentId(call.root, id)

\* C13: in every state reached by clicks, ctrl/meta-clicks, drag-start,
\* edits and batch-delete: if editingId is non-null then selectedIds is
\* exactly {editingId}, and if more than one node is selected then editingId
\* is null.
C13_EditingIsSelection ==
  /\ editingId # NoId => SeqToSet(selectedIds) = {editingId}
  /\ Len(selectedIds) > 1 => editingId = NoId

\* the texts of a tree in pre-order
RECURSIVE TextSeq(_)
TextSeq(node) ==
  <<node.text>> \o Flatten([i \in 1..Len(node.children) |-> TextSeq(node.children[i])])

\* no text of the tree on screen or of a tree in the history is longer than
\* 5000 characters (TooLongText is the only text of the model that is)
TextsWithinLimit ==
  \A w \in {present} \cup SeqToSet(past) \cup SeqToSet(future) :
    \A i \in 1..Len(TextSeq(w.data.node)) : TextSeq(w.data.node)[i] # TooLongText

\* C15: a text change with more than 5000 characters leaves the tree, the
\* history triple and the pending-save timer as they were, and no node text
\* is ever longer than 5000 characters.
C15_LongTextRejected ==
  /\ []TextsWithinLimit
  /\ [][lastOp'.phase = "rejected" =>
          /\ past' = past /\ present' = present /\ future' = future
          /\ saveTimeoutRef' = saveTimeoutRef]_vars

\* a too long text was typed while a save was pending and the history was
\* not empty
C15_Witness ==
  /\ lastOp.phase = "rejected"
  /\ saveTimeoutRef # <<>>
  /\ past # <<>>

\* ------------------------------------------------------------------------
\* Properties of the canvas (SpecCanvas, SpecView)
\* ------------------------------------------------------------------------
\* the events that are an Escape key press
EscapeEvents == {"escapeSelecting", "escapeDrag", "escapeCenter"}

\* C14: an Escape never changes the tree or the history triple, and after an
\* Escape pressed during a box selection or a drag isSelecting is false, the
\* selection rectangle is null, draggedNodeId is null and dropTarget is null.
C14_EscapeResets ==
  /\ [][lastEvent'.type \in EscapeEvents =>
          past' = past /\ present' = present /\ future' = future]_vars
  /\ [](lastEvent.type \in {"escapeSelecting", "escapeDrag"} =>
          /\ ~isSelecting
          /\ selectionRect = <<>>
          /\ draggedNodeId = NoId
          /\ dropTarget = <<>>)

\* the screen box of a node as rendered: top edge and height
RenderedTop(t, id) == applyY(t, foreignObject(LayoutFind(id)[1]).y)
RenderedHeight(t, id) == foreignObject(LayoutFind(id)[1]).h * t.k

\* the drag-over handled last was a single-node drag over a node that may
\* take the dragged node
C16_SingleDragOver ==
  /\ lastEvent.type = "dragOver"
  /\ Len(selectedIds) <= 1
  /\ lastEvent.id # draggedNodeId
  /\ ~isDescendant(internalData.node, lastEvent.id, draggedNodeId)

\* C16: a single-node drag over a non-root box with top T and height H is
\* classified 'prev' when y - T < H/4, 'next' when y - T > 3H/4 and 'inside'
\* otherwise (box 200..300: 215 'prev', 290 'next', 250 'inside'); over the
\* root it is 'inside' wherever the pointer is.
C16_DropPosition ==
  /\ getDropPosition(215 - 200, 300 - 200, FALSE) = "prev"
  /\ getDropPosition(290 - 200, 300 - 200, FALSE) = "next"
  /\ getDropPosition(250 - 200, 300 - 200, FALSE) = "inside"
  /\ C16_SingleDragOver =>
       LET T == RenderedTop(transform, lastEvent.id)
           H == RenderedHeight(transform, lastEvent.id)
           y == lastEvent.y
           position == IF lastEvent.id = internalData.node.id THEN "inside"
                       ELSE IF 4 * (y - T) < H THEN "prev"
                       ELSE IF 4 * (y - T) > 3 * H THEN "next"
                       ELSE "inside"
       IN dropTarget = <<[nodeId |-> lastEvent.id, position |-> position]>>

\* a single node was dragged over the lowest eighth of a non-root box
C16_Witness ==
  /\ C16_SingleDragOver
  /\ lastEvent.id # internalData.node.id
  /\ 8 * (lastEvent.y - RenderedTop(transform, lastEvent.id))
       = 7 * RenderedHeight(transform, lastEvent.id)
  /\ dropTarget # <<>>
  /\ dropTarget[1].position = "next"

\* the screen box of a node as rendered
RenderedBox(t, d) ==
  [x |-> applyX(t, foreignObject(d).x), y |-> applyY(t, foreignObject(d).y),
   w |-> foreignObject(d).w * t.k, h |-> foreignObject(d).h * t.k]

\* two boxes overlap on both axes
Overlap(r, b) ==
  /\ r.x < b.x + b.w /\ r.x + r.w > b.x
  /\ r.y < b.y + b.h /\ r.y + r.h > b.y

\* the selection rectangle on screen
SelectionBox ==
  handleMouseMove_rect(selectionRect[1], selectionRect[1].currentX,
                       selectionRect[1].currentY)

CenterEvents == {"altEnter", "escapeCenter"}

\* C18: centerView on an existing node sets and emits the transform with
\* scale s (1, or the scale before the call when preserveScale is true) and
\* tx = W/2 - cx*s, ty = H/2 - cy*s for the centre (cx, cy) of the node's
\* rendered box, so that the centre of the node is the centre of the viewport.
C18_CenterView ==
  lastEvent.type \in CenterEvents =>
    LET box == foreignObject(LayoutFind(lastEvent.id)[1])
        preserveScale == lastEvent.type = "altEnter"
        s == IF preserveScale THEN lastEvent.before.k ELSE 1
    IN /\ transform.k = s
       /\ 2 * transform.x = Viewport.w - (2 * box.x + box.w) * s
       /\ 2 * transform.y = Viewport.h - (2 * box.y + box.h) * s
       /\ 2 * applyX(transform, box.x) + box.w * s = Viewport.w
       /\ 2 * applyY(transform, box.y) + box.h * s = Viewport.h
       /\ viewState = transform

\* centerView kept a scale of 2 for a node that is not the root, away from
\* where the view was
C18_Witness ==
  /\ lastEvent.type = "altEnter"
  /\ lastEvent.id # internalData.node.id
  /\ lastEvent.before.k = 2
  /\ transform # lastEvent.before

\* a screen box lies inside the viewport shrunk by the padding, per axis
InsideX(b) == b.x >= padding /\ b.x + b.w <= Viewport.w - padding
InsideY(b) == b.y >= padding /\ b.y + b.h <= Viewport.h - padding

\* C19: autoPan for the node that became the edited one leaves the transform
\* alone when the node's screen box is inside the padded viewport; otherwise,
\* when the box fits into the padded viewport, it translates the view without
\* changing the scale so that the box is inside and every edge that was
\* outside lies on its padding line.
C19_AutoPan ==
  lastEvent.type = "click" =>
    LET d == LayoutFind(lastEvent.id)[1]
        b0 == RenderedBox(lastEvent.before, d)
        b1 == RenderedBox(transform, d)
        fits == /\ b0.w <= Viewport.w - 2 * padding
                /\ b0.h <= Viewport.h - 2 * padding
    IN /\ (InsideX(b0) /\ InsideY(b0)) => transform = lastEvent.before
       /\ (fits /\ ~(InsideX(b0) /\ InsideY(b0))) =>
            /\ transform.k = lastEvent.before.k
            /\ InsideX(b1) /\ InsideY(b1)
            /\ InsideX(b0) => b1.x = b0.x
            /\ InsideY(b0) => b1.y = b0.y
            /\ b0.x < padding => b1.x = padding
            /\ b0.x + b0.w > Viewport.w - padding => b1.x + b1.w = Viewport.w - padding
            /\ b0.y < padding => b1.y = padding
            /\ b0.y + b0.h > Viewport.h - padding => b1.y + b1.h = Viewport.h - padding

\* autoPan moved a node that fits and was beyond the right and the bottom
\* padding line
C19_Witness ==
  /\ lastEvent.type = "click"
  /\ LET b0 == RenderedBox(lastEvent.before, LayoutFind(lastEvent.id)[1])
     IN /\ b0.w <= Viewport.w - 2 * padding
        /\ b0.x + b0.w > Viewport.w - padding
        /\ b0.y + b0.h > Viewport.h - padding
  /\ transform # lastEvent.before

\* the events of a primary-button press, drag and release on the canvas
PrimaryButtonEvents == {"primaryDown", "mouseMove", "mouseUp"}

\* C20: a primary-button press, drag and release on the canvas never changes
\* the viewport transform.
C20_PrimaryDragKeepsView ==
  [][lastEvent'.type \in PrimaryButtonEvents => transform' = transform]_vars

\* C21: in every state between two events the ViewState held by the parent
\* (x, y, k) equals the live viewport transform, whatever changed the
\* viewport: a wheel zoom, a pan, a centering or an auto-pan, during a box
\* selection or not.
C21_ViewStateIsTransform ==
  /\ viewState.x = transform.x
  /\ viewState.y = transform.y
  /\ viewState.k = transform.k

\* ------------------------------------------------------------------------
\* Layout
\* ------------------------------------------------------------------------
\* widest measured line of a text
WidestLine(text) ==
  LET lines == measureText(text)
  IN CHOOSE m \in SeqToSet(lines) : \A j \in 1..Len(lines) : lines[j] <= m

Clamp(v, lo, hi) == IF v < lo THEN lo ELSE IF v > hi THEN hi ELSE v

TextOf(id) == findNodeById(tree, id)[1].text

\* C22: every node gets width = clamp(m + 50, 80, 1280) and height =
\* clamp(40 + (n - 1) * 24, 40, 600), with m the measured width of its widest
\* line and n its number of lines; a node whose widest line measures at most
\* 30 gets width 80.
C22_ClampedSize ==
  \A i \in 1..Len(calculateLayout_tree(tree)) :
    LET d == calculateLayout_tree(tree)[i]
        m == WidestLine(TextOf(d.id))
        n == Len(measureText(TextOf(d.id)))
    IN /\ d.width = Clamp(m + 50, 80, 1280)
       /\ d.actualHeight = Clamp(40 + (n - 1) * 24, 40, 600)
       /\ (m <= 30 => d.width = 80)

\* the nodes of the mindmap layout at one depth
AtDepth(depth) ==
  {d \in SeqToSet(calculateLayout_mindmap(tree)) : d.depth = depth}

\* the largest width of a node at a depth
LevelMax(depth) ==
  CHOOSE w \in {d.width : d \in AtDepth(depth)} : \A d \in AtDepth(depth) : d.width <= w

RECURSIVE SumOfLevels(_)
SumOfLevels(depth) ==
  IF depth = 0 THEN 0 ELSE SumOfLevels(depth - 1) + LevelMax(depth - 1) + 60

\* C23: in mindmap mode every node at depth d gets y = the sum over the
\* levels i < d of (the largest node width at level i + 60), 0 at depth 0;
\* the nodes of one depth share their y, and a child lies at least the width
\* of its parent plus 60 beyond its parent.
C23_DepthOffsets ==
  LET layout == SeqToSet(calculateLayout_mindmap(tree))
  IN /\ \A d \in layout : d.y = SumOfLevels(d.depth)
     /\ \A d, e \in layout : d.depth = e.depth => d.y = e.y
     /\ \A p, c \in layout : c.parent = p.id => c.y >= p.y + p.width + 60

\* two nodes of different widths at depth 1 and a node below them whose offset
\* counts the wider one
C23_Witness ==
  /\ \E d, e \in AtDepth(1) : d.width < e.width
  /\ \E c \in AtDepth(2) : \E p \in AtDepth(1) :
       /\ c.parent = p.id
       /\ c.y > p.y + p.width + 60

\* the depth of a node of the tree
DepthOf(id) ==
  LET ds == descendants(<<tree>>, 0, NoId)
  IN (CHOOSE d \in SeqToSet(ds) : d.id = id).depth

\* top and bottom edge of a laid out node
TopOf(d) == d.x - d.actualHeight \div 2
BottomOf(d) == d.x + d.actualHeight \div 2

\* C24: in tree mode the nodes are visited in pre-order with a cursor starting
\* at 0: a node gets x = cursor + height / 2 and y = depth * 40 and the cursor
\* advances by height + 10; so the vertical extents of two nodes are disjoint,
\* consecutive nodes are exactly 10 apart and the nodes lie top to bottom in
\* document order.
C24_TreeMode ==
  LET layout == calculateLayout_tree(tree)
      n == Len(layout)
  IN /\ [i \in 1..n |-> layout[i].id] = IdSeq(tree)
     /\ TopOf(layout[1]) = 0
     /\ \A i \in 1..n :
          /\ 2 * layout[i].x = 2 * TopOf(layout[i]) + layout[i].actualHeight
          /\ layout[i].y = DepthOf(layout[i].id) * 40
     /\ \A i \in 1..(n - 1) : TopOf(layout[i + 1]) = BottomOf(layout[i]) + 10
     /\ \A i, j \in 1..n : i < j => BottomOf(layout[i]) < TopOf(layout[j])

\* a node of several lines lies above another node
C24_Witness ==
  LET layout == calculateLayout_tree(tree)
  IN \E i \in 1..(Len(layout) - 1) :
       /\ layout[i].actualHeight > 40
       /\ layout[i + 1].actualHeight = MAX_NODE_HEIGHT
       /\ layout[i + 1].y < layout[i].y

\* ------------------------------------------------------------------------
\* Copy as outline
\* ------------------------------------------------------------------------
\* the selected nodes of root without a selected ancestor, the root included
TopLevelSelected(root, selected) ==
  {id \in SeqToSet(selected) \cap IdsOf(root) :
     \A other \in SeqToSet(selected) \ {id} : ~isDescendant(root, id, other)}

\* a node followed, one level deeper, by its selected children
RECURSIVE Outline(_, _, _)
Outline(node, depth, selected) ==
  <<[indent |-> depth, id |-> node.id]>>
  \o Flatten([i \in 1..Len(node.children) |->
                IF node.children[i].id \in SeqToSet(selected)
                THEN Outline(node.children[i], depth + 1, selected) ELSE <<>>])

\* C25: the outline copied from a selection has a depth-0 entry for exactly
\* the selected nodes none of whose ancestors (the root included) is selected,
\* and below each emitted node, one level deeper, exactly its selected
\* children; unselected children are omitted.
C25_CopyOutline ==
  call.fn = "copy" =>
    LET lines == [i \in 1..Len(call.md) |-> [indent |-> call.md[i].indent, id |-> call.md[i].id]]
        top == SelectSeq(lines, LAMBDA l : l.indent = 0)
    IN /\ {top[i].id : i \in 1..Len(top)} = TopLevelSelected(call.root, call.ids)
       /\ Len(top) = Cardinality(TopLevelSelected(call.root, call.ids))
       /\ lines = Flatten([i \in 1..Len(top) |->
                    Outline(findNodeById(call.root, top[i].id)[1], 0, call.ids)])

\* ------------------------------------------------------------------------
\* Creating and deleting single nodes
\* ------------------------------------------------------------------------
\* a tree without the node id and what hangs below it
RECURSIVE DropNode(_, _)
DropNode(node, id) ==
  LET kept == SelectSeq(node.children, LAMBDA c : c.id # id)
  IN [node EXCEPT !.children = [i \in 1..Len(kept) |-> DropNode(kept[i], id)]]

\* new is old plus the leaf newId, which is fresh, has an empty text and is
\* the child at place `at` of parentId (0: the last place)
PlusLeaf(old, new, parentId, newId, at) ==
  /\ newId \notin IdsOf(old)
  /\ findNodeById(new, newId) # <<>>
  /\ findNodeById(new, newId)[1].text = ""
  /\ findNodeById(new, newId)[1].children = <<>>
  /\ ParentId(new, newId) = parentId
  /\ LET siblings == findNodeById(new, parentId)[1].children
     IN siblings[IF at = 0 THEN Len(siblings) ELSE at].id = newId
  /\ DropNode(new, newId) = old

\* a step of addChild in the hook
AddChildStep ==
  /\ present'.action = "Add Child Node"
  /\ refCount' = refCount + 1
  /\ idCount' = idCount + 1

\* C26: create-child on a parentId of the tree gives the old tree plus one new
\* leaf with a fresh id and an empty text as the last child of parentId, adds
\* exactly one history entry and makes the new node the editing node and the
\* only selected node; on a parentId that is not in the tree the tree is
\* unchanged.
C26_CreateChild ==
  /\ [](call.fn = "addChild" =>
          IF call.a \in IdsOf(call.root)
          THEN \E newId \in IdsOf(tree) : PlusLeaf(call.root, tree, call.a, newId, 0)
          ELSE tree = call.root)
  /\ [][AddChildStep =>
          /\ \E parentId \in Rendered : \E newId \in IdsOf(present'.data.node) :
               /\ PlusLeaf(internalData.node, present'.data.node, parentId, newId, 0)
               /\ editingId' = newId
               /\ selectedIds' = <<newId>>
          /\ past' = Append(past, present)]_vars

\* a child was created after some typing, and the tree transform was seen on
\* an id that is not in the tree
C26_Witness ==
  /\ present.action = "Add Child Node"
  /\ past # <<>>
  /\ past[Len(past)].data.ref # 0
  /\ editingId \in Rendered \ IdsOf(InitTreeEdit)
  /\ call.fn = "addChild"
  /\ call.a = MissingId

\* a step of addSibling in the hook that got past its first line
AddSiblingStep ==
  /\ present'.action = "Add Sibling Node"
  /\ refCount' = refCount + 1
  /\ idCount' = idCount + 1

\* new is old plus a fresh empty leaf right after currentId
PlusSibling(old, new, currentId, newId) ==
  PlusLeaf(old, new, ParentId(old, currentId), newId,
           FindIndex(findParentNode(old, currentId)[1].children, currentId) + 1)

\* C27: create-sibling on a node other than the root inserts one new leaf with
\* a fresh id and an empty text right after that node among the children of
\* its parent and makes the new node the editing node and the only selected
\* node; create-sibling on the root changes neither the tree, nor the history,
\* nor the selection.
C27_CreateSibling ==
  /\ [](call.fn = "addSibling" =>
          IF call.a = call.root.id THEN tree = call.root
          ELSE call.a \in IdsOf(call.root) =>
                 \E newId \in IdsOf(tree) : PlusSibling(call.root, tree, call.a, newId))
  /\ [][AddSiblingStep =>
          \E currentId \in Rendered \ {internalData.node.id} :
            \E newId \in IdsOf(present'.data.node) :
               /\ PlusSibling(internalData.node, present'.data.node, currentId, newId)
               /\ editingId' = newId
               /\ selectedIds' = <<newId>>]_vars
  /\ [][(present'.action = "Add Sibling Node" /\ present.action # "Add Sibling Node")
          => AddSiblingStep]_vars

\* a sibling was created in the hook, and the tree transform was seen on the
\* root and left the tree alone
C27_Witness ==
  /\ present.action = "Add Sibling Node"
  /\ editingId \in Rendered \ IdsOf(InitTreeEdit)
  /\ ParentId(internalData.node, editingId) = RootId
  /\ call.fn = "addSibling"
  /\ call.a = call.root.id

\* a step of deleteNode in the hook that got past its first line
DeleteNodeStep ==
  /\ present'.action = "Delete Node"
  /\ refCount' = refCount + 1
  /\ past' = Append(past, present)

\* the node before id among the children of its parent, the parent for a
\* first child
BeforeOrParent(root, id) ==
  LET siblings == findParentNode(root, id)[1].children
      idx == FindIndex(siblings, id)
  IN IF idx > 1 THEN siblings[idx - 1].id ELSE ParentId(root, id)

\* C28: deleting a node other than the root removes that node and its whole
\* subtree from the children of its parent, every other node keeping its
\* place, and moves editingId, selectedIds and focusedNodeId to the previous
\* sibling of the deleted node, or to its parent when it has none: a node of
\* the resulting tree.
C28_DeleteNode ==
  [][DeleteNodeStep =>
       \E id \in Rendered \ {internalData.node.id} :
         LET target == BeforeOrParent(internalData.node, id)
         IN /\ present'.data.node = DropNode(internalData.node, id)
            /\ IdsOf(present'.data.node) =
                 Rendered \ IdsOf(findNodeById(internalData.node, id)[1])
            /\ editingId' = target
            /\ selectedIds' = <<target>>
            /\ focusedNodeId' = target
            /\ target \in IdsOf(present'.data.node)]_vars

\* a node with a previous sibling was deleted and that sibling has the focus
C28_Witness ==
  /\ present.action = "Delete Node"
  /\ past # <<>>
  /\ \E id \in IdsOf(past[Len(past)].data.node) \ Rendered :
       /\ editingId = BeforeOrParent(past[Len(past)].data.node, id)
       /\ editingId # ParentId(past[Len(past)].data.node, id)
       /\ focusedNodeId = editingId
       /\ selectedIds = <<editingId>>

\* ------------------------------------------------------------------------
\* Blur and the save timer
\* ------------------------------------------------------------------------
\* a step of handleTextBlur that commits
BlurCommitStep ==
  /\ lastOp'.committed
  /\ present'.action = "Update Node Text (Blur)"

\* C29: a blur with text typed since the last commit cancels the pending
\* timer and adds exactly one history entry, whose predecessor in past is the
\* last committed tree and whose present is the live tree; a blur with
\* nothing typed since the last commit leaves the history alone; no timer is
\* pending afterwards, so nothing is added later for those keystrokes.
C29_BlurFlushes ==
  [][BlurCommitStep =>
       /\ ~lastOp.committed
       /\ saveTimeoutRef' = <<>>
       /\ Len(past') = Len(past) + 1
       /\ SubSeq(past', 1, Len(past)) = past
       /\ past'[Len(past')].data = lastCommittedData
       /\ present'.data = internalData]_vars

\* a step of the save timer that commits the tree it was armed with
TimerCommitStep ==
  /\ saveTimeoutRef # <<>>
  /\ saveTimeoutRef' = <<>>
  /\ lastOp'.committed
  /\ present'.action = "Update Node Text"
  /\ present'.data = saveTimeoutRef[1].newData

\* C30: whatever the keystrokes, timer expiries and other operations before
\* it, the tree a firing save timer commits is the live tree of that moment:
\* the expiry does not change the displayed tree, so it brings back no deleted
\* node and no undone state.
C30_NoGhostUpdate ==
  [][TimerCommitStep =>
       /\ present'.data.node = internalData.node
       /\ IdsOf(present'.data.node) = Rendered]_vars

\* ------------------------------------------------------------------------
\* Undo during typing
\* ------------------------------------------------------------------------
\* a step of undo taken right after a keystroke whose save is still pending
UndoWhileTyping ==
  /\ saveTimeoutRef # <<>>
  /\ lastOp.base # -1
  /\ \/ lastOp'.phase = "undoEmpty"
     \/ /\ past # <<>>
        /\ present' = past[Len(past)]
        /\ future' = <<present>> \o future

\* C31: an undo issued while text typed since the last commit is uncommitted
\* brings the live tree back to the last committed tree, the tree from just
\* before those keystrokes; it does not also revert the committed edit before
\* the typing.
C31_UndoRevertsTypingOnly ==
  [][UndoWhileTyping => present'.data.node = lastCommittedData.node]_vars

\* C32: moveNode conserves the nodes: whatever the tree, the draggedId, the
\* targetId and the position (the root as target of 'prev' or 'next', a target
\* inside the dragged subtree and a missing target included), the ids of the
\* returned tree are the ids of the tree it was given.
C32_MoveNodeConserves ==
  call.fn = "moveNode" => IdsOf(tree) = IdsOf(call.root)

\* C33: in every state every id in selectedIds, the editingId when there is
\* one and the focusedNodeId of the view state when there is one name a node
\* of the current tree.
C33_FocusInTree ==
  /\ SeqToSet(selectedIds) \subseteq Rendered
  /\ editingId # NoId => editingId \in Rendered
  /\ focusedNodeId # NoId => focusedNodeId \in Rendered

\* C34: a history entry is added, and the future cleared, only when the tree
\* changes: an operation whose resulting tree is structurally the tree it
\* started from leaves past, present and future alone, so that every undo
\* step changes the tree.
C34_CommitChangesTree ==
  [][lastOp'.committed =>
       past'[Len(past')].data.node # present'.data.node]_vars

\* ------------------------------------------------------------------------
\* Copying a selection by drag and drop
\* ------------------------------------------------------------------------
\* the top-level selected nodes the drop copies: those whose subtree does not
\* hold the target
CopiedTopLevel(root, ids, targetId) ==
  {id \in TopLevelSelected(root, ids) : ~isDescendant(root, targetId, id)}

\* C35: a copy-drop of a selection clones each selected subtree once: a
\* selected node below a selected node is cloned as part of that node's clone
\* only, so the number of new nodes is the number of nodes in the subtrees of
\* the top-level selected nodes that were copied.
C35_CopyDropOnce ==
  call.fn = "handleDrop" =>
    Size(tree) - Size(call.root) =
      Cardinality(UNION {IdsOf(findNodeById(call.root, id)[1]) :
                           id \in CopiedTopLevel(call.root, call.ids, call.b)})

\* ------------------------------------------------------------------------
\* Promote and reorder
\* ------------------------------------------------------------------------
\* new is old with the node id, subtree and all, taken from its parent and
\* put right after that parent among the children of the parent's parent
Promoted(old, new, id) ==
  LET parentId == ParentId(old, id)
      siblings == findParentNode(new, id)[1].children
  IN /\ findNodeById(new, id) = findNodeById(old, id)
     /\ ParentId(new, id) = ParentId(old, parentId)
     /\ FindIndex(siblings, id) = FindIndex(siblings, parentId) + 1
     /\ DropNode(new, id) = DropNode(old, id)

\* the nodes promote can move: below a node that is not the root
Promotable(root) ==
  {id \in IdsOf(root) : ParentId(root, id) \notin {NoId, root.id}}

\* a step of promoteNode in the hook that committed
PromoteStep ==
  /\ lastOp'.committed
  /\ Len(past') = Len(past) + 1
  /\ present'.action = "Promote Node"

\* C36: promoting a node whose parent P is not the root moves the node with
\* its subtree intact right after P among the children of P's parent, adds
\* exactly one history entry and keeps the relative order of all other nodes;
\* promoting the root or a child of the root changes neither the tree nor the
\* history.
C36_Promote ==
  /\ [](call.fn = "promoteNode" =>
          IF call.a \in Promotable(call.root) THEN Promoted(call.root, tree, call.a)
          ELSE call.a \in IdsOf(call.root) => tree = call.root)
  /\ [][PromoteStep =>
          /\ \E id \in Promotable(internalData.node) :
               Promoted(internalData.node, present'.data.node, id)
          /\ past' = Append(past, present)]_vars

\* a node with children was promoted, and the hook promoted a node
C36_Witness ==
  /\ call.fn = "promoteNode"
  /\ call.a \in Promotable(call.root)
  /\ findNodeById(call.root, call.a)[1].children # <<>>
  /\ present.action = "Promote Node"
  /\ Len(past) = 1
  /\ ParentId(internalData.node, 3) = RootId

\* the adjacent sibling of id in a direction, NoId when there is none
Adjacent(root, id, direction) ==
  IF findParentNode(root, id) = <<>> THEN NoId
  ELSE LET siblings == findParentNode(root, id)[1].children
           idx == FindIndex(siblings, id)
       IN IF direction = "up"
          THEN (IF idx > 1 THEN siblings[idx - 1].id ELSE NoId)
          ELSE (IF idx < Len(siblings) THEN siblings[idx + 1].id ELSE NoId)

\* the tree with the children x and y of one node exchanged
RECURSIVE Swapped(_, _, _)
Swapped(node, x, y) ==
  LET i == FindIndex(node.children, x)
      j == FindIndex(node.children, y)
  IN IF i # 0 /\ j # 0
     THEN [node EXCEPT !.children = [node.children EXCEPT ![i] = node.children[j],
                                                          ![j] = node.children[i]]]
     ELSE [node EXCEPT !.children =
             [k \in 1..Len(node.children) |-> Swapped(node.children[k], x, y)]]

\* the ids of the siblings of id, id included
SiblingIds(root, id) ==
  IF findParentNode(root, id) = <<>> THEN {}
  ELSE {c.id : c \in SeqToSet(findParentNode(root, id)[1].children)}

\* a step of reorderNode in the hook that committed
ReorderStep ==
  /\ lastOp'.committed
  /\ Len(past') = Len(past) + 1
  /\ present'.action = "Reorder Node"

\* C37: reorder up (down) of a node with a previous (next) sibling exchanges
\* the two in the children of their parent and changes nothing else; reorder
\* up of a first child, down of a last child and of the root change neither
\* the tree nor the history; the parent keeps its set of children in every
\* case.
C37_Reorder ==
  /\ [](call.fn = "reorderNode" /\ call.a \in IdsOf(call.root) =>
          /\ tree = IF Adjacent(call.root, call.a, call.pos) # NoId
                    THEN Swapped(call.root, call.a, Adjacent(call.root, call.a, call.pos))
                    ELSE call.root
          /\ SiblingIds(tree, call.a) = SiblingIds(call.root, call.a)
          /\ ParentId(tree, call.a) = ParentId(call.root, call.a))
  /\ [][ReorderStep =>
          /\ \E id \in Rendered, direction \in {"up", "down"} :
               /\ Adjacent(internalData.node, id, direction) # NoId
               /\ present'.data.node =
                    Swapped(internalData.node, id, Adjacent(internalData.node, id, direction))
          /\ past' = Append(past, present)]_vars

\* a node was moved down past its sibling and a last child was left in
\* place; the hook reordered two children of the root
C37_Witness ==
  /\ call.fn = "reorderNode"
  /\ call.pos = "down"
  /\ Adjacent(call.root, call.a, "down") # NoId
  /\ tree # call.root
  /\ present.action = "Reorder Node"
  /\ Len(internalData.node.children) = 2

\* C38: centerView called with an explicit screen anchor (ax, ay), as the
\* initial centering in tree mode does with (120, 120), sets a transform under
\* which the geometric centre of the target node's rendered box is at (ax, ay).
C38_AnchoredCenter ==
  lastEvent.type = "initialCentering" =>
    LET box == foreignObject(LayoutFind(lastEvent.id)[1])
    IN /\ 2 * applyX(transform, box.x) + box.w * transform.k = 2 * 120
       /\ 2 * applyY(transform, box.y) + box.h * transform.k = 2 * 120

\* The initial centering ran with the anchor (120, 120) and the centre of the
\* target node's box is not at the anchor: the box's top-left corner is.
C38_CornerAtAnchor ==
  /\ lastEvent.type = "initialCentering"
  /\ LET box == foreignObject(LayoutFind(lastEvent.id)[1])
     IN /\ applyX(transform, box.x) = 120
        /\ applyY(transform, box.y) = 120
        /\ 2 * applyX(transform, box.x) + box.w * transform.k # 2 * 120

====
